---- MODULE Spec2Model ----
(***************************************************************************)
(* Verification model of the SAF-T PT validator (validators/fiscal.py and  *)
(* the index() flow of app.py) and of the reading of a purchase invoice    *)
(* from the text of a scanned page (purchase_pdf() of app.py and the       *)
(* functions it calls).                                                    *)
(*                                                                         *)
(* Text is a sequence of one-character strings.  A leaf element of the     *)
(* document tree is its text, or None when the element is missing.  A      *)
(* container element found with find() is a sequence holding zero or one   *)
(* record; children found with findall() are a sequence of records.        *)
(* The characters of the model are ASCII digits, letters, and the          *)
(* punctuation ' ', '-', '.', ':', ',' ; the exponent letters e/E and the  *)
(* underscore are outside the number inputs of the model.                  *)
(***************************************************************************)
EXTENDS Integers, Sequences, FiniteSets, Bags, TLC

None == <<"None">>

DIGITS == <<"0", "1", "2", "3", "4", "5", "6", "7", "8", "9">>

Digit == {DIGITS[i] : i \in 1..10}

Upper == {"A", "B", "C", "D", "E", "F", "G", "H", "I", "J", "K", "L", "M",
          "N", "O", "P", "Q", "R", "S", "T", "U", "V", "W", "X", "Y", "Z"}

Lower == {"a", "b", "c", "d", "e", "f", "g", "h", "i", "j", "k", "l", "m",
          "n", "o", "p", "q", "r", "s", "t", "u", "v", "w", "x", "y", "z"}

AlNum == Digit \cup Upper \cup Lower

Space == {" ", "\t", "\n"}

\* int(c) for a digit character c
DigitVal(c) == (CHOOSE i \in 1..10 : DIGITS[i] = c) - 1

Range(s) == {s[i] : i \in 1..Len(s)}

AllIn(s, S) == \A i \in 1..Len(s) : s[i] \in S

\* the text of a string literal
Chars(str) == [i \in 1..Len(str) |-> SubSeq(str, i, i)]

UPPERCASE == Chars("ABCDEFGHIJKLMNOPQRSTUVWXYZ")

LOWERCASE == Chars("abcdefghijklmnopqrstuvwxyz")

ToLower(c) ==
    IF c \in Upper THEN LOWERCASE[CHOOSE i \in 1..26 : UPPERCASE[i] = c] ELSE c

\* s.lower()
lower(s) == [i \in 1..Len(s) |-> ToLower(s[i])]

RECURSIVE LStrip(_)
LStrip(s) == IF s # <<>> /\ Head(s) \in Space THEN LStrip(Tail(s)) ELSE s

RECURSIVE RStrip(_)
RStrip(s) ==
    IF s # <<>> /\ s[Len(s)] \in Space THEN RStrip(SubSeq(s, 1, Len(s) - 1)) ELSE s

\* str.strip()
Strip(s) == RStrip(LStrip(s))

\* el.text.strip() if el is not None and el.text and el.text.strip() else None
_ftext(el) ==
    IF el # None /\ el # <<>> /\ Strip(el) # <<>> THEN Strip(el) ELSE None

RECURSIVE SumSeq(_)
SumSeq(s) == IF s = <<>> THEN 0 ELSE Head(s) + SumSeq(Tail(s))

\* sum(int(nif[i]) * (9 - i) for i in range(8)), 0-based i
NifTotal(nif) == SumSeq([i \in 1..8 |-> DigitVal(nif[i]) * (10 - i)])

NifFirst == {"1", "2", "3", "5", "6", "8", "9"}

\* check > 10 in place of check >= 10
NifCheck_Gt10(total) ==
    LET check == 11 - (total % 11)
    IN  IF check > 10 THEN 0 ELSE check

NifCheck(total) ==
    LET check == 11 - (total % 11)
    IN  IF check >= 10 THEN 0 ELSE check

\* validators/fiscal.py _validar_nif_pt
_validar_nif_pt(nif) ==
    IF ~(Len(nif) = 9 /\ AllIn(nif, Digit)) THEN FALSE
    ELSE IF nif[1] \notin NifFirst THEN FALSE
    ELSE NifCheck(NifTotal(nif)) = DigitVal(nif[9])

\* app.py _validar_nif_pt: the same function over (nif or "")
app_validar_nif_pt(nif) ==
    LET s == IF nif = None \/ nif = <<>> THEN <<>> ELSE nif
    IN  IF ~(Len(s) = 9 /\ AllIn(s, Digit)) THEN FALSE
        ELSE IF s[1] \notin NifFirst THEN FALSE
        ELSE NifCheck(NifTotal(s)) = DigitVal(s[9])

(***************************************************************************)
(* Python float: IEEE 754 binary64, round to nearest, ties to even.        *)
(* A mantissa has 53 bits, more than a TLC integer holds, so naturals are  *)
(* little-endian sequences of limbs in base LimbBase.  A float is          *)
(* [sign, m, e] with value (-1)^sign * m * 2^e, where m = 0 or             *)
(* 2^52 <= m < 2^53.  Subnormals, infinities and NaN are outside the       *)
(* inputs of the model.  Intermediate values are passed as parameters.     *)
(***************************************************************************)
LimbBits == 15

LimbBase == 2^LimbBits

MantBits == 53

RECURSIVE BNNorm(_)
BNNorm(a) ==
    IF a # <<>> /\ a[Len(a)] = 0 THEN BNNorm(SubSeq(a, 1, Len(a) - 1)) ELSE a

RECURSIVE BNFromNat(_)
BNFromNat(n) ==
    IF n = 0 THEN <<>> ELSE <<n % LimbBase>> \o BNFromNat(n \div LimbBase)

\* a + b + c
RECURSIVE BNAddC(_, _, _)
BNAddC(a, b, c) ==
    IF a = <<>> /\ b = <<>> THEN (IF c = 0 THEN <<>> ELSE <<c>>)
    ELSE LET t == (IF a = <<>> THEN 0 ELSE Head(a))
                  + (IF b = <<>> THEN 0 ELSE Head(b)) + c
         IN  <<t % LimbBase>> \o
             BNAddC(IF a = <<>> THEN a ELSE Tail(a),
                    IF b = <<>> THEN b ELSE Tail(b), t \div LimbBase)

BNAdd(a, b) == BNAddC(a, b, 0)

\* a - b - c for a >= b + c
RECURSIVE BNSubB(_, _, _)
BNSubB(a, b, c) ==
    IF a = <<>> THEN <<>>
    ELSE LET t == Head(a) - (IF b = <<>> THEN 0 ELSE Head(b)) - c
         IN  <<t % LimbBase>> \o
             BNSubB(Tail(a), IF b = <<>> THEN b ELSE Tail(b),
                    IF t < 0 THEN 1 ELSE 0)

BNSub(a, b) == BNNorm(BNSubB(a, b, 0))

\* -1, 0, 1 as a < b, a = b, a > b on the limbs 1..i (same length)
RECURSIVE BNCmpTop(_, _, _)
BNCmpTop(a, b, i) ==
    IF i = 0 THEN 0
    ELSE IF a[i] < b[i] THEN -1
    ELSE IF a[i] > b[i] THEN 1
    ELSE BNCmpTop(a, b, i - 1)

\* -1, 0, 1 as a < b, a = b, a > b (normalised operands)
BNCmp(a, b) ==
    IF Len(a) < Len(b) THEN -1
    ELSE IF Len(a) > Len(b) THEN 1
    ELSE BNCmpTop(a, b, Len(a))

\* a * k + c for 0 <= k <= LimbBase
RECURSIVE BNMulSmallC(_, _, _)
BNMulSmallC(a, k, c) ==
    IF a = <<>> THEN BNFromNat(c)
    ELSE LET t == Head(a) * k + c
         IN  <<t % LimbBase>> \o BNMulSmallC(Tail(a), k, t \div LimbBase)

BNMulSmall(a, k) == BNNorm(BNMulSmallC(a, k, 0))

\* <<a div k, a mod k>> for 0 < k <= LimbBase, quotient not normalised
RECURSIVE BNDivSmallR(_, _)
BNDivSmallR(a, k) ==
    IF a = <<>> THEN <<<<>>, 0>>
    ELSE LET hi == BNDivSmallR(Tail(a), k)
         IN  <<<<(hi[2] * LimbBase + Head(a)) \div k>> \o hi[1],
               (hi[2] * LimbBase + Head(a)) % k>>

NormQuot(qr) == <<BNNorm(qr[1]), qr[2]>>

\* <<a div k, a mod k>> for 0 < k <= LimbBase
BNDivSmall(a, k) == NormQuot(BNDivSmallR(a, k))

Zeros(n) == [i \in 1..n |-> 0]

\* a * 2^n
BNShl(a, n) ==
    IF a = <<>> THEN <<>>
    ELSE Zeros(n \div LimbBits) \o BNMulSmall(a, 2^(n % LimbBits))

\* <<q, sticky>> from <<q, r>> and the limbs dropped below
StickyPack(qr, low) == <<qr[1], qr[2] # 0 \/ \E i \in 1..Len(low) : low[i] # 0>>

\* <<a div 2^n, a mod 2^n # 0>>
BNShrSticky(a, n) ==
    StickyPack(BNDivSmall(SubSeq(a, (n \div LimbBits) + 1, Len(a)), 2^(n % LimbBits)),
               SubSeq(a, 1, IF n \div LimbBits < Len(a) THEN n \div LimbBits ELSE Len(a)))

RECURSIVE BitLenSmall(_)
BitLenSmall(n) == IF n = 0 THEN 0 ELSE 1 + BitLenSmall(n \div 2)

BNBitLen(a) ==
    IF a = <<>> THEN 0 ELSE LimbBits * (Len(a) - 1) + BitLenSmall(a[Len(a)])

BNIsOdd(a) == a # <<>> /\ a[1] % 2 = 1

FZero == [sign |-> 0, m |-> <<>>, e |-> 0]

\* a rounded mantissa m1 of up to MantBits + 1 bits, renormalised
FRenorm(sign, m1, e) ==
    IF BNBitLen(m1) > MantBits
    THEN [sign |-> sign, m |-> BNShrSticky(m1, 1)[1], e |-> e + 1]
    ELSE [sign |-> sign, m |-> m1, e |-> e]

\* ties to even: m0 the kept bits, half the first dropped bit, st the rest
FRoundUp(sign, m0, half, st, e) ==
    FRenorm(sign, IF half /\ (st \/ BNIsOdd(m0)) THEN BNAdd(m0, <<1>>) ELSE m0, e)

\* qs = <<kept bits and the first dropped bit, sticky>>
FRoundHalf(sign, qs, sticky, e) ==
    FRoundUp(sign, BNShrSticky(qs[1], 1)[1], BNIsOdd(qs[1]), qs[2] \/ sticky, e)

\* M has L bits
FRoundLen(sign, M, L, sticky, e) ==
    IF M = <<>> THEN FZero
    ELSE IF L <= MantBits
    THEN [sign |-> sign, m |-> BNShl(M, MantBits - L), e |-> e - (MantBits - L)]
    ELSE FRoundHalf(sign, BNShrSticky(M, L - MantBits - 1), sticky, e + (L - MantBits))

\* the float nearest to (-1)^sign * (M + f) * 2^e, where 0 <= f < 1 and
\* sticky says f # 0 (sticky only with more than MantBits bits in M)
FRound(sign, M, sticky, e) == FRoundLen(sign, M, BNBitLen(M), sticky, e)

\* the natural written by a sequence of digit characters
RECURSIVE BNFromDigits(_, _)
BNFromDigits(ds, acc) ==
    IF ds = <<>> THEN acc
    ELSE BNFromDigits(Tail(ds), BNNorm(BNMulSmallC(acc, 10, DigitVal(Head(ds)))))

\* <<a div 10^d, sticky \/ a mod 10^d # 0>>, qr = <<a, a remainder>>
RECURSIVE BNDivPow10(_, _, _)
BNDivPow10(qr, d, sticky) ==
    IF d = 0 THEN <<qr[1], sticky \/ qr[2] # 0>>
    ELSE BNDivPow10(BNDivSmall(qr[1], 10), d - 1, sticky \/ qr[2] # 0)

FRoundPair(sign, qs, e) == FRound(sign, qs[1], qs[2], e)

\* the float nearest to (-1)^sign * N / 10^d
FFromDecimal(sign, N, d) ==
    FRoundPair(sign, BNDivPow10(<<BNShl(N, MantBits + 2 + 4 * d), 0>>, d, FALSE),
               0 - (MantBits + 2 + 4 * d))

FNeg(a) == [a EXCEPT !.sign = 1 - a.sign]

FAbs(a) == [a EXCEPT !.sign = 0]

\* (-1)^sa * A + (-1)^sb * B at exponent e, c = BNCmp(A, B)
FAddAligned(sa, A, sb, B, c, e) ==
    FRound(IF sa = sb \/ c > 0 THEN sa ELSE sb,
           IF sa = sb THEN BNAdd(A, B)
           ELSE IF c > 0 THEN BNSub(A, B)
           ELSE IF c < 0 THEN BNSub(B, A) ELSE <<>>,
           FALSE, e)

FAddShifted(sa, A, sb, B, e) == FAddAligned(sa, A, sb, B, BNCmp(A, B), e)

FAddAt(a, b, e) ==
    FAddShifted(a.sign, BNShl(a.m, a.e - e), b.sign, BNShl(b.m, b.e - e), e)

\* a + b
FAdd(a, b) ==
    IF a.m = <<>> THEN b
    ELSE IF b.m = <<>> THEN a
    ELSE FAddAt(a, b, IF a.e < b.e THEN a.e ELSE b.e)

\* a < 0
FIsNeg(a) == a.sign = 1 /\ a.m # <<>>

\* a > b for a >= 0 and b >= 0
FGt(a, b) ==
    IF a.m = <<>> THEN FALSE
    ELSE IF b.m = <<>> THEN TRUE
    ELSE IF a.e # b.e THEN a.e > b.e
    ELSE BNCmp(a.m, b.m) > 0

\* a == b
FEq(a, b) == (a.m = <<>> /\ b.m = <<>>) \/ a = b

\* what a call that raises gives
Raise == [raise |-> "ValueError"]

FloatSign(s) == IF s # <<>> /\ s[1] = "-" THEN 1 ELSE 0

FloatBody(s) == IF s # <<>> /\ s[1] \in {"-", "+"} THEN Tail(s) ELSE s

DotAt(b) == {i \in 1..Len(b) : b[i] = "."}

\* [+-]? (digits+ ('.' digits*)? | '.' digits+)
FloatSyntax(s) ==
    /\ s # None
    /\ \E i \in 1..Len(FloatBody(s)) : FloatBody(s)[i] \in Digit
    /\ Cardinality(DotAt(FloatBody(s))) <= 1
    /\ \A i \in 1..Len(FloatBody(s)) : FloatBody(s)[i] \in Digit \cup {"."}

\* the body b with its decimal point at position dot
FloatDigits(sign, b, dot) ==
    FFromDecimal(sign,
                 BNFromDigits(SubSeq(b, 1, dot - 1) \o SubSeq(b, dot + 1, Len(b)), <<>>),
                 IF dot > Len(b) THEN 0 ELSE Len(b) - dot)

FloatParse(sign, b) ==
    FloatDigits(sign, b, IF DotAt(b) = {} THEN Len(b) + 1 ELSE CHOOSE i \in DotAt(b) : TRUE)

\* the values float() gives for the words it reads
FInf(sign) == [sign |-> sign, inf |-> TRUE]

FNaN == [nan |-> TRUE]

\* [+-]? (inf | infinity | nan), in any case
FloatWord(s) ==
    s # None /\ lower(FloatBody(s)) \in {Chars("inf"), Chars("infinity"), Chars("nan")}

FloatOfWord(s) ==
    IF lower(FloatBody(s)) = Chars("nan") THEN FNaN ELSE FInf(FloatSign(s))

\* float(s) of a stripped text: None and text outside the syntax raise
float(s) ==
    IF FloatWord(s) THEN FloatOfWord(s)
    ELSE IF ~FloatSyntax(s) THEN Raise ELSE FloatParse(FloatSign(s), FloatBody(s))

\* fiscal.py _float(el)
_float(el) == float(_ftext(el))

\* a - b
FSub(a, b) == FAdd(a, FNeg(b))

(***************************************************************************)
(* app.py: the money parser of the OCR route.                              *)
(***************************************************************************)
\* None where a number is expected
NoNumber == [none |-> TRUE]

EURO == "€"

\* s.replace(old, new): the occurrences of old from left to right
RECURSIVE Replace(_, _, _)
Replace(s, old, new) ==
    IF Len(s) < Len(old) THEN s
    ELSE IF SubSeq(s, 1, Len(old)) = old
    THEN new \o Replace(SubSeq(s, Len(old) + 1, Len(s)), old, new)
    ELSE <<Head(s)>> \o Replace(Tail(s), old, new)

\* '.' is a thousands separator only next to a ','
MoneyThousands_Always(v) == Replace(v, <<".">>, <<>>)

\* if "," in v and "." in v: v = v.replace(".", "")
MoneyThousands(v) ==
    IF "," \in Range(v) /\ "." \in Range(v) THEN Replace(v, <<".">>, <<>>) ELSE v

\* the text _parse_money hands to float()
MoneyClean(s) ==
    Replace(MoneyThousands(Replace(Replace(Replace(Strip(s), <<EURO>>, <<>>),
                                           Chars("EUR"), <<>>),
                                   <<" ">>, <<>>)),
            <<",">>, <<".">>)

\* try: return float(v)  except Exception: return None
MoneyFloat(x) == IF x = Raise THEN NoNumber ELSE x

_parse_money(s) ==
    IF s = None \/ s = <<>> THEN NoNumber ELSE MoneyFloat(float(MoneyClean(s)))


(***************************************************************************)
(* int(), datetime.fromisoformat() and the regular expressions.            *)
(* fromisoformat is modelled on the YYYY-MM-DD form; every other text of   *)
(* the model's inputs is rejected by it.                                   *)
(***************************************************************************)
RECURSIVE NatOfDigits(_, _)
NatOfDigits(ds, acc) ==
    IF ds = <<>> THEN acc ELSE NatOfDigits(Tail(ds), acc * 10 + DigitVal(Head(ds)))

\* int(s): None and text that is not [+-]? digits+ raise
int(s) ==
    IF s = None \/ FloatBody(s) = <<>> \/ ~AllIn(FloatBody(s), Digit) THEN Raise
    ELSE [int |-> IF FloatSign(s) = 1 THEN 0 - NatOfDigits(FloatBody(s), 0)
                  ELSE NatOfDigits(FloatBody(s), 0)]

IsLeap(y) == (y % 4 = 0 /\ y % 100 # 0) \/ y % 400 = 0

DaysInMonth(y, m) ==
    IF m = 2 THEN (IF IsLeap(y) THEN 29 ELSE 28)
    ELSE IF m \in {4, 6, 9, 11} THEN 30 ELSE 31

\* date(y, m, d): the date, or Raise when it is not a calendar date
MakeDate(y, m, d) ==
    IF y >= 1 /\ m \in 1..12 /\ d >= 1 /\ d <= DaysInMonth(y, m)
    THEN [y |-> y, m |-> m, d |-> d] ELSE Raise

\* datetime.fromisoformat(s): a date [y, m, d], or Raise
fromisoformat(s) ==
    IF s = None \/ Len(s) # 10 THEN Raise
    ELSE IF ~(s[5] = "-" /\ s[8] = "-"
              /\ \A i \in {1, 2, 3, 4, 6, 7, 9, 10} : s[i] \in Digit) THEN Raise
    ELSE MakeDate(NatOfDigits(SubSeq(s, 1, 4), 0), NatOfDigits(SubSeq(s, 6, 7), 0),
                  NatOfDigits(SubSeq(s, 9, 10), 0))

\* a > b on dates
DateGt(a, b) ==
    \/ a.y > b.y
    \/ a.y = b.y /\ a.m > b.m
    \/ a.y = b.y /\ a.m = b.m /\ a.d > b.d

\* a >= b on dates
DateGe(a, b) == ~DateGt(b, a)

\* datetime(2023, 1, 1).date()
ATCUD_FROM == [y |-> 2023, m |-> 1, d |-> 1]

\* length of the longest prefix of s made of characters of S
RECURSIVE SpanLen(_, _)
SpanLen(s, S) ==
    IF s # <<>> /\ Head(s) \in S THEN 1 + SpanLen(Tail(s), S) ELSE 0

Drop(s, n) == SubSeq(s, n + 1, Len(s))

StartsWith(s, p) == Len(s) >= Len(p) /\ SubSeq(s, 1, Len(p)) = p

\* -([0-9]+)$ matched at the start of r
AtcudSeq(r) == r # <<>> /\ Head(r) = "-" /\ Len(r) >= 2 /\ AllIn(Tail(r), Digit)

\* AtcudCore asking for a code of ten characters
AtcudCore_Ten(s) == SpanLen(s, AlNum) >= 10 /\ AtcudSeq(Drop(s, SpanLen(s, AlNum)))

\* ([A-Za-z0-9]{8,})-([0-9]+)$ matched at the start of s
AtcudCore(s) == SpanLen(s, AlNum) >= 8 /\ AtcudSeq(Drop(s, SpanLen(s, AlNum)))

ATCUD_PREFIX == <<"A", "T", "C", "U", "D", ":">>

\* _ATCUD_RE.match(s) for a stripped text s
_ATCUD_RE(s) ==
    \/ /\ StartsWith(s, ATCUD_PREFIX)
       /\ AtcudCore(LStrip(Drop(s, Len(ATCUD_PREFIX))))
    \/ AtcudCore(s)

\* (\.\d+)?$ matched at the start of r
HashControlFrac(r) ==
    r = <<>> \/ (Head(r) = "." /\ Len(r) >= 2 /\ AllIn(Tail(r), Digit))

\* HashControlRe matching a prefix only
HashControlRe_Prefix(s) == SpanLen(s, Digit) >= 1

\* re.fullmatch(r"\d+(\.\d+)?", s)
HashControlRe(s) == SpanLen(s, Digit) >= 1 /\ HashControlFrac(Drop(s, SpanLen(s, Digit)))

NOR == <<"N", "O", "R">>

\* fiscal.py IVA_REGRAS: the literal of each code
IVA_REGRAS ==
    [c \in {NOR, <<"I", "N", "T">>, <<"R", "E", "D">>, <<"I", "S", "E">>,
            <<"O", "U", "T">>} |->
        IF c = NOR THEN <<"2", "3", ".", "0">>
        ELSE IF c = <<"I", "N", "T">> THEN <<"1", "3", ".", "0">>
        ELSE IF c = <<"R", "E", "D">> THEN <<"6", ".", "0">>
        ELSE <<"0", ".", "0">>]

IVA == <<"I", "V", "A">>

PT == <<"P", "T">>

(***************************************************************************)
(* The rule passes.  Each takes the document root and the accumulator and  *)
(* gives the accumulator it leaves.  A message is the tuple of its         *)
(* template, written without accents, and the values interpolated into it; *)
(* the ATCUD and HashControl templates of invoices and payments differ     *)
(* only in their first word, which is the value kind.                      *)
(***************************************************************************)
obrigatorios ==
    <<"AuditFileVersion", "CompanyID", "TaxRegistrationNumber", "CompanyName",
      "FiscalYear", "StartDate", "EndDate", "CurrencyCode", "DateCreated">>

RECURSIVE HeaderLoop(_, _, _)
HeaderLoop(header, i, errors) ==
    IF i > Len(obrigatorios) THEN errors
    ELSE HeaderLoop(header, i + 1,
            IF _ftext(header[obrigatorios[i]]) = None
            THEN Append(errors, <<"Header.{campo} e obrigatorio.", obrigatorios[i]>>)
            ELSE errors)

validar_header(xml_root, errors) ==
    IF xml_root.Header = <<>> THEN Append(errors, <<"Header em falta.">>)
    ELSE HeaderLoop(xml_root.Header[1], 1, errors)

\* if start.year != fy
DatasYear(fy, start, errors) ==
    IF start.y # fy.int
    THEN Append(errors, <<"FiscalYear nao corresponde ao ano de StartDate.">>)
    ELSE errors

\* the try block of validar_datas with its three values parsed
DatasTry(fy, start, end, errors) ==
    IF fy = Raise \/ start = Raise \/ end = Raise
    THEN Append(errors, <<"Datas fiscais invalidas no Header.">>)
    ELSE DatasYear(fy, start,
            IF DateGt(start, end)
            THEN Append(errors, <<"StartDate nao pode ser maior que EndDate.">>)
            ELSE errors)

\* validar_datas returning at once when the accumulator holds a message
validar_datas_IfClean(xml_root, errors) ==
    IF xml_root.Header = <<>> \/ errors # <<>> THEN errors
    ELSE DatasTry(int(_ftext(xml_root.Header[1].FiscalYear)),
                  fromisoformat(_ftext(xml_root.Header[1].StartDate)),
                  fromisoformat(_ftext(xml_root.Header[1].EndDate)), errors)

validar_datas(xml_root, errors) ==
    IF xml_root.Header = <<>> THEN errors
    ELSE DatasTry(int(_ftext(xml_root.Header[1].FiscalYear)),
                  fromisoformat(_ftext(xml_root.Header[1].StartDate)),
                  fromisoformat(_ftext(xml_root.Header[1].EndDate)), errors)

\* validar_nif after nif = _ftext(nif_el)
NifReport(nif, errors) ==
    IF nif = None THEN errors
    ELSE IF ~_validar_nif_pt(nif) THEN Append(errors, <<"NIF invalido no Header.">>)
    ELSE errors

\* validar_nif reporting the NIF of a missing Header as invalid
validar_nif_Reports(xml_root, errors) ==
    IF xml_root.Header = <<>> THEN Append(errors, <<"NIF invalido no Header.">>)
    ELSE NifReport(_ftext(xml_root.Header[1].TaxRegistrationNumber), errors)

validar_nif(xml_root, errors) ==
    IF xml_root.Header = <<>> THEN errors
    ELSE NifReport(_ftext(xml_root.Header[1].TaxRegistrationNumber), errors)

\* abs(a - b) > tol, tol the text of the literal
AbsDiffGt(a, b, tol) == FGt(FAbs(FSub(a, b)), float(tol))

\* if abs(tax_perc - IVA_REGRAS[code]) > 0.001
TaxReference(code, tax_perc, errors) ==
    IF AbsDiffGt(tax_perc, float(IVA_REGRAS[code]), <<"0", ".", "0", "0", "1">>)
    THEN Append(errors, <<"IVA {code}: TaxPercentage invalido.", code>>)
    ELSE errors

\* TaxDuplicate without the comparison
TaxDuplicate_Never(code, tax_perc, vistos, errors) == errors

\* if code in vistos and vistos[code] != tax_perc
TaxDuplicate(code, tax_perc, vistos, errors) ==
    IF code \in DOMAIN vistos /\ ~FEq(vistos[code], tax_perc)
    THEN Append(errors, <<"IVA {code}: duplicado com percentagens diferentes.", code>>)
    ELSE errors

\* an IVA/PT entry after tax_perc = float(...): <<vistos, errors>>
TaxIvaEntry(code, tax_perc, vistos, errors) ==
    IF tax_perc = Raise
    THEN <<vistos, Append(errors, <<"IVA {code}: TaxPercentage invalido.", code>>)>>
    ELSE IF code \notin DOMAIN IVA_REGRAS
    THEN <<vistos, Append(errors, <<"IVA TaxCode desconhecido: {code}.", code>>)>>
    ELSE <<[c \in DOMAIN vistos \cup {code} |-> IF c = code THEN tax_perc ELSE vistos[c]],
           TaxDuplicate(code, tax_perc, vistos, TaxReference(code, tax_perc, errors))>>

\* an entry with its four texts read: <<vistos, errors>>
TaxEntryFields(tax_type, region, code, perc, vistos, errors) ==
    IF None \in {tax_type, region, code, perc}
    THEN <<vistos, Append(errors, <<"TaxTableEntry incompleto.">>)>>
    ELSE IF tax_type # IVA \/ region # PT THEN <<vistos, errors>>
    ELSE TaxIvaEntry(code, float(perc), vistos, errors)

\* one iteration of the loop of validar_tax_table: <<vistos, errors>>
TaxEntryStep(entry, vistos, errors) ==
    TaxEntryFields(_ftext(entry.TaxType), _ftext(entry.TaxCountryRegion),
                   _ftext(entry.TaxCode), _ftext(entry.TaxPercentage), vistos, errors)

RECURSIVE TaxLoop(_, _)
TaxLoop(entries, st) ==
    IF entries = <<>> THEN st[2]
    ELSE TaxLoop(Tail(entries), TaxEntryStep(Head(entries), st[1], st[2]))

validar_tax_table(xml_root, errors) ==
    IF xml_root.TaxTable = <<>> THEN Append(errors, <<"TaxTable em falta.">>)
    ELSE IF xml_root.TaxTable[1].TaxTableEntry = <<>>
    THEN Append(errors, <<"TaxTable sem TaxTableEntry.">>)
    ELSE TaxLoop(xml_root.TaxTable[1].TaxTableEntry, <<<<>>, errors>>)


SEM_INVOICE_NO == <<"<sem InvoiceNo>">>

SEM_PAYMENT_REF == <<"<sem PaymentRefNo>">>

VAZIO == <<"vazio">>

\* x or y
Or(x, y) == IF x = None THEN y ELSE x

\* [_float(el) for el in els]
RECURSIVE FloatAll(_)
FloatAll(els) ==
    IF els = <<>> THEN <<>> ELSE <<_float(Head(els))>> \o FloatAll(Tail(els))

\* net, tax, gross of a DocumentTotals as read in the try blocks
TotalsOf(totals) ==
    FloatAll(<<totals.NetTotal, totals.TaxPayable, totals.GrossTotal>>)

\* one of the three conversions raised
TotalsRaise(t) == t[1] = Raise \/ t[2] = Raise \/ t[3] = Raise

\* abs((net + tax) - gross) > 0.01
GrossIncoerente(t) == AbsDiffGt(FAdd(t[1], t[2]), t[3], <<"0", ".", "0", "1">>)

\* an invoice with InvoiceNo and DocumentTotals, t its totals
SalesTotals(inv_no, t, errors) ==
    IF TotalsRaise(t)
    THEN Append(errors, <<"Invoice {inv_no}: totais invalidos.", inv_no>>)
    ELSE IF GrossIncoerente(t)
    THEN Append(errors, <<"Invoice {inv_no}: GrossTotal incoerente.", inv_no>>)
    ELSE errors

\* one iteration of the loop of validar_sales_invoices
SalesInvoiceStep(inv, errors) ==
    IF _ftext(inv.InvoiceNo) = None \/ inv.DocumentTotals = <<>>
    THEN Append(errors, <<"Invoice incompleta.">>)
    ELSE SalesTotals(_ftext(inv.InvoiceNo), TotalsOf(inv.DocumentTotals[1]), errors)

RECURSIVE SalesInvoiceLoop(_, _)
SalesInvoiceLoop(invoices, errors) ==
    IF invoices = <<>> THEN errors
    ELSE SalesInvoiceLoop(Tail(invoices), SalesInvoiceStep(Head(invoices), errors))

validar_sales_invoices(xml_root, errors) ==
    IF xml_root.SalesInvoices = <<>> THEN Append(errors, <<"SalesInvoices em falta.">>)
    ELSE IF xml_root.SalesInvoices[1].Invoice = <<>>
    THEN Append(errors, <<"SalesInvoices sem Invoice.">>)
    ELSE SalesInvoiceLoop(xml_root.SalesInvoices[1].Invoice, errors)

\* AtcudCheck with the boundary day exempt
AtcudCheck_Gt(kind, no, date, atcud, errors) ==
    IF DateGt(date, ATCUD_FROM) /\ (atcud = None \/ ~_ATCUD_RE(atcud))
    THEN Append(errors, <<"{kind} {no}: ATCUD invalido ou em falta.", kind, no>>)
    ELSE errors

\* if date >= 2023-01-01: if not atcud or not _ATCUD_RE.match(atcud)
AtcudCheck(kind, no, date, atcud, errors) ==
    IF DateGe(date, ATCUD_FROM) /\ (atcud = None \/ ~_ATCUD_RE(atcud))
    THEN Append(errors, <<"{kind} {no}: ATCUD invalido ou em falta.", kind, no>>)
    ELSE errors

\* if not hc or not re.fullmatch(r"\d+(\.\d+)?", hc)
HashControlCheck(kind, no, hc, errors) ==
    IF hc = None \/ ~HashControlRe(hc)
    THEN Append(errors, <<"{kind} {no}: HashControl invalido.", kind, no>>)
    ELSE errors

\* the Hash part of an iteration of validar_atcud_hash_sales_invoices
InvoiceHash(inv_no, h, hc, errors) ==
    IF h = None THEN Append(errors, <<"Invoice {inv_no}: Hash em falta.", inv_no>>)
    ELSE IF h # <<"0">> THEN HashControlCheck("Invoice", inv_no, hc, errors)
    ELSE errors

\* an invoice with an InvoiceDate text, inv_date its parse
AtcudHashDated(inv, inv_no, inv_date, errors) ==
    IF inv_date = Raise
    THEN Append(errors, <<"Invoice {inv_no}: InvoiceDate invalido.", inv_no>>)
    ELSE InvoiceHash(inv_no, _ftext(inv.Hash), _ftext(inv.HashControl),
            AtcudCheck("Invoice", inv_no, inv_date, _ftext(inv.ATCUD), errors))

AtcudHashNamed(inv, inv_no, inv_date_s, errors) ==
    IF inv_date_s = None
    THEN Append(errors, <<"Invoice {inv_no}: InvoiceDate em falta.", inv_no>>)
    ELSE AtcudHashDated(inv, inv_no, fromisoformat(inv_date_s), errors)

\* one iteration of the loop of validar_atcud_hash_sales_invoices
AtcudHashStep(inv, errors) ==
    AtcudHashNamed(inv, Or(_ftext(inv.InvoiceNo), SEM_INVOICE_NO),
                   _ftext(inv.InvoiceDate), errors)

RECURSIVE AtcudHashLoop(_, _)
AtcudHashLoop(invoices, errors) ==
    IF invoices = <<>> THEN errors
    ELSE AtcudHashLoop(Tail(invoices), AtcudHashStep(Head(invoices), errors))

validar_atcud_hash_sales_invoices(xml_root, errors) ==
    IF xml_root.SalesInvoices = <<>> THEN errors
    ELSE AtcudHashLoop(xml_root.SalesInvoices[1].Invoice, errors)

\* the non-blank texts of field f of the elements els
KeysOf(els, f) == {_ftext(els[i][f]) : i \in 1..Len(els)} \ {None}

\* if cid and cid not in customer_ids
CustomerCheck(inv_no, cid, customer_ids, errors) ==
    IF cid # None /\ cid \notin customer_ids
    THEN Append(errors, <<"Invoice {inv_no}: CustomerID {cid} nao existe.", inv_no, cid>>)
    ELSE errors

RECURSIVE CustomersLoop(_, _, _)
CustomersLoop(invoices, customer_ids, errors) ==
    IF invoices = <<>> THEN errors
    ELSE CustomersLoop(Tail(invoices), customer_ids,
            CustomerCheck(Or(_ftext(Head(invoices).InvoiceNo), SEM_INVOICE_NO),
                          _ftext(Head(invoices).CustomerID), customer_ids, errors))

validar_customers(xml_root, errors) ==
    IF xml_root.SalesInvoices = <<>> THEN errors
    ELSE CustomersLoop(xml_root.SalesInvoices[1].Invoice,
                       KeysOf(xml_root.Customer, "CustomerID"), errors)

\* ProductCheck letting a line without ProductCode pass
ProductCheck_NoBlank(inv_no, pc, product_codes, errors) ==
    IF pc # None /\ pc \notin product_codes
    THEN Append(errors, <<"Invoice {inv_no}: ProductCode invalido (nao existe em MasterFiles).", inv_no>>)
    ELSE errors

\* if not pc or pc not in product_codes
ProductCheck(inv_no, pc, product_codes, errors) ==
    IF pc = None \/ pc \notin product_codes
    THEN Append(errors, <<"Invoice {inv_no}: ProductCode invalido (nao existe em MasterFiles).", inv_no>>)
    ELSE errors

RECURSIVE ProductLinesLoop(_, _, _, _)
ProductLinesLoop(lines, inv_no, product_codes, errors) ==
    IF lines = <<>> THEN errors
    ELSE ProductLinesLoop(Tail(lines), inv_no, product_codes,
            ProductCheck(inv_no, _ftext(Head(lines).ProductCode), product_codes, errors))

RECURSIVE ProductsLoop(_, _, _)
ProductsLoop(invoices, product_codes, errors) ==
    IF invoices = <<>> THEN errors
    ELSE ProductsLoop(Tail(invoices), product_codes,
            ProductLinesLoop(Head(invoices).Line,
                             Or(_ftext(Head(invoices).InvoiceNo), SEM_INVOICE_NO),
                             product_codes, errors))

validar_products(xml_root, errors) ==
    IF xml_root.SalesInvoices = <<>> THEN errors
    ELSE ProductsLoop(xml_root.SalesInvoices[1].Invoice,
                      KeysOf(xml_root.Product, "ProductCode"), errors)

\* the set invoices of validar_payments
InvoiceNos(xml_root) ==
    IF xml_root.SalesInvoices = <<>> THEN {}
    ELSE KeysOf(xml_root.SalesInvoices[1].Invoice, "InvoiceNo")

\* if not src or src not in invoices
PaymentLineCheck(ref, src, invoices, errors) ==
    IF src = None \/ src \notin invoices
    THEN Append(errors, <<"Payment {ref}: referencia a Invoice inexistente ({src}).", ref, Or(src, VAZIO)>>)
    ELSE errors

RECURSIVE PaymentLinesLoop(_, _, _, _)
PaymentLinesLoop(lines, ref, invoices, errors) ==
    IF lines = <<>> THEN errors
    ELSE PaymentLinesLoop(Tail(lines), ref, invoices,
            PaymentLineCheck(ref, _ftext(Head(lines).OriginatingON), invoices, errors))

\* if h and h != "0"
PaymentHash(ref, h, hc, errors) ==
    IF h # None /\ h # <<"0">> THEN HashControlCheck("Payment", ref, hc, errors)
    ELSE errors

\* a payment whose totals parsed, tdate the parse of its TransactionDate
PaymentDated(pay, ref, tdate, invoices, errors) ==
    IF tdate = Raise
    THEN Append(errors, <<"Payment {ref}: TransactionDate invalido.", ref>>)
    ELSE PaymentLinesLoop(pay.Line, ref, invoices,
            PaymentHash(ref, _ftext(pay.Hash), _ftext(pay.HashControl),
                AtcudCheck("Payment", ref, tdate, _ftext(pay.ATCUD), errors)))

\* PaymentTotals leaving the payment at incoherent totals
PaymentTotals_Skip(pay, ref, date_s, t, invoices, errors) ==
    IF TotalsRaise(t)
    THEN Append(errors, <<"Payment {ref}: totais invalidos.", ref>>)
    ELSE IF GrossIncoerente(t)
    THEN Append(errors, <<"Payment {ref}: GrossTotal incoerente.", ref>>)
    ELSE PaymentDated(pay, ref, fromisoformat(date_s), invoices, errors)

\* a payment with TransactionDate and DocumentTotals, t its totals
PaymentTotals(pay, ref, date_s, t, invoices, errors) ==
    IF TotalsRaise(t)
    THEN Append(errors, <<"Payment {ref}: totais invalidos.", ref>>)
    ELSE PaymentDated(pay, ref, fromisoformat(date_s), invoices,
            IF GrossIncoerente(t)
            THEN Append(errors, <<"Payment {ref}: GrossTotal incoerente.", ref>>)
            ELSE errors)

PaymentNamed(pay, ref, date_s, invoices, errors) ==
    IF date_s = None \/ pay.DocumentTotals = <<>>
    THEN Append(errors, <<"Payment {ref}: incompleto (TransactionDate/DocumentTotals).", ref>>)
    ELSE PaymentTotals(pay, ref, date_s, TotalsOf(pay.DocumentTotals[1]), invoices, errors)

\* one iteration of the loop of validar_payments
PaymentStep(pay, invoices, errors) ==
    PaymentNamed(pay, Or(_ftext(pay.PaymentRefNo), SEM_PAYMENT_REF),
                 _ftext(pay.TransactionDate), invoices, errors)

RECURSIVE PaymentsLoop(_, _, _)
PaymentsLoop(pay_list, invoices, errors) ==
    IF pay_list = <<>> THEN errors
    ELSE PaymentsLoop(Tail(pay_list), invoices,
                      PaymentStep(Head(pay_list), invoices, errors))

validar_payments(xml_root, errors) ==
    IF xml_root.Payments = <<>> THEN errors
    ELSE IF xml_root.Payments[1].Payment = <<>>
    THEN Append(errors, <<"Payments sem Payment.">>)
    ELSE PaymentsLoop(xml_root.Payments[1].Payment, InvoiceNos(xml_root), errors)


ADDRESS_FIELDS == <<"AddressDetail", "City", "Country">>

RECURSIVE AddressLoop(_, _, _, _)
AddressLoop(addr, sid, i, errors) ==
    IF i > Len(ADDRESS_FIELDS) THEN errors
    ELSE AddressLoop(addr, sid, i + 1,
            IF _ftext(addr[ADDRESS_FIELDS[i]]) = None
            THEN Append(errors, <<"Supplier {sid}: BillingAddress.{f} obrigatorio.", sid, ADDRESS_FIELDS[i]>>)
            ELSE errors)

\* if country == "PT" and taxid and not _validar_nif_pt(taxid)
SupplierNif(sid, country, taxid, errors) ==
    IF country = PT /\ taxid # None /\ ~_validar_nif_pt(taxid)
    THEN Append(errors, <<"Supplier {sid}: NIF PT invalido.", sid>>)
    ELSE errors

\* addr = s.find("ns:BillingAddress") and the checks on it
SupplierAddress(sid, addr, taxid, errors) ==
    IF addr = <<>>
    THEN Append(errors, <<"Supplier {sid}: BillingAddress em falta.", sid>>)
    ELSE SupplierNif(sid, _ftext(addr[1].Country), taxid,
                     AddressLoop(addr[1], sid, 1, errors))

\* if not taxid
SupplierTaxId(sid, taxid, errors) ==
    IF taxid = None
    THEN Append(errors, <<"Supplier {sid}: SupplierTaxID obrigatorio.", sid>>)
    ELSE errors

\* if not name
SupplierName(sid, name, errors) ==
    IF name = None
    THEN Append(errors, <<"Supplier {sid}: CompanyName obrigatorio.", sid>>)
    ELSE errors

\* if sid in seen
SupplierSeen(sid, seen, errors) ==
    IF sid \in seen THEN Append(errors, <<"SupplierID duplicado: {sid}.", sid>>)
    ELSE errors

\* a supplier with its SupplierID read: <<seen, errors>>
SupplierNamed(s, sid, seen, errors) ==
    IF sid = None THEN <<seen, Append(errors, <<"Supplier sem SupplierID.">>)>>
    ELSE <<seen \cup {sid},
           SupplierAddress(sid, s.BillingAddress, _ftext(s.SupplierTaxID),
              SupplierTaxId(sid, _ftext(s.SupplierTaxID),
                 SupplierName(sid, _ftext(s.CompanyName),
                    SupplierSeen(sid, seen, errors))))>>

RECURSIVE SuppliersLoop(_, _)
SuppliersLoop(suppliers, st) ==
    IF suppliers = <<>> THEN st[2]
    ELSE SuppliersLoop(Tail(suppliers),
            SupplierNamed(Head(suppliers), _ftext(Head(suppliers).SupplierID),
                          st[1], st[2]))

validar_suppliers(xml_root, errors) ==
    SuppliersLoop(xml_root.Supplier, <<{}, errors>>)

\* tax = line.find("ns:Tax") and the check on it
PurchaseLineTax(inv_no, tax, errors) ==
    IF /\ tax # <<>>
       /\ _ftext(tax[1].TaxType) = IVA
       /\ _ftext(tax[1].TaxCountryRegion) = PT
       /\ _ftext(tax[1].TaxCode) # None
       /\ _ftext(tax[1].TaxCode) \notin DOMAIN IVA_REGRAS
    THEN Append(errors, <<"PurchaseInvoice {inv_no}: IVA TaxCode desconhecido na linha: {code}.", inv_no, _ftext(tax[1].TaxCode)>>)
    ELSE errors

\* if not pc or (product_codes and pc not in product_codes)
PurchaseLineProduct(inv_no, pc, product_codes, errors) ==
    IF pc = None \/ (product_codes # {} /\ pc \notin product_codes)
    THEN Append(errors, <<"PurchaseInvoice {inv_no}: ProductCode invalido (nao existe em MasterFiles).", inv_no>>)
    ELSE errors

RECURSIVE PurchaseLinesLoop(_, _, _, _)
PurchaseLinesLoop(lines, inv_no, product_codes, errors) ==
    IF lines = <<>> THEN errors
    ELSE PurchaseLinesLoop(Tail(lines), inv_no, product_codes,
            PurchaseLineTax(inv_no, Head(lines).Tax,
                PurchaseLineProduct(inv_no, _ftext(Head(lines).ProductCode),
                                    product_codes, errors)))

\* if abs((net + tax) - gross) > 0.01
PurchaseCoherent(inv_no, t, errors) ==
    IF GrossIncoerente(t)
    THEN Append(errors, <<"PurchaseInvoice {inv_no}: GrossTotal incoerente.", inv_no>>)
    ELSE errors

\* the try block on DocumentTotals, t its totals
PurchaseTotalsTry(inv_no, t, errors) ==
    IF TotalsRaise(t)
    THEN Append(errors, <<"PurchaseInvoice {inv_no}: totais invalidos.", inv_no>>)
    ELSE PurchaseCoherent(inv_no, t,
            IF FIsNeg(t[1]) \/ FIsNeg(t[2]) \/ FIsNeg(t[3])
            THEN Append(errors, <<"PurchaseInvoice {inv_no}: totais negativos.", inv_no>>)
            ELSE errors)

PurchaseTotals(inv_no, totals, errors) ==
    IF totals = <<>>
    THEN Append(errors, <<"PurchaseInvoice {inv_no}: DocumentTotals em falta.", inv_no>>)
    ELSE PurchaseTotalsTry(inv_no, TotalsOf(totals[1]), errors)

PurchaseSupplier(inv_no, sid, supplier_ids, errors) ==
    IF sid = None
    THEN Append(errors, <<"PurchaseInvoice {inv_no}: SupplierID em falta.", inv_no>>)
    ELSE IF supplier_ids # {} /\ sid \notin supplier_ids
    THEN Append(errors, <<"PurchaseInvoice {inv_no}: SupplierID {sid} nao existe em MasterFiles.", inv_no, sid>>)
    ELSE errors

PurchaseDate(inv_no, inv_date, errors) ==
    IF inv_date = None
    THEN Append(errors, <<"PurchaseInvoice {inv_no}: InvoiceDate em falta.", inv_no>>)
    ELSE IF fromisoformat(inv_date) = Raise
    THEN Append(errors, <<"PurchaseInvoice {inv_no}: InvoiceDate invalido.", inv_no>>)
    ELSE errors

PurchaseNamed(inv, inv_no, supplier_ids, product_codes, errors) ==
    PurchaseLinesLoop(inv.Line, inv_no, product_codes,
        PurchaseTotals(inv_no, inv.DocumentTotals,
            PurchaseSupplier(inv_no, _ftext(inv.SupplierID), supplier_ids,
                PurchaseDate(inv_no, _ftext(inv.InvoiceDate), errors))))

\* one iteration of the loop of validar_purchase_invoices
PurchaseInvoiceStep(inv, supplier_ids, product_codes, errors) ==
    PurchaseNamed(inv, Or(_ftext(inv.InvoiceNo), SEM_INVOICE_NO),
                  supplier_ids, product_codes, errors)

RECURSIVE PurchaseInvoicesLoop(_, _, _, _)
PurchaseInvoicesLoop(invoices, supplier_ids, product_codes, errors) ==
    IF invoices = <<>> THEN errors
    ELSE PurchaseInvoicesLoop(Tail(invoices), supplier_ids, product_codes,
            PurchaseInvoiceStep(Head(invoices), supplier_ids, product_codes, errors))

validar_purchase_invoices(xml_root, errors) ==
    IF xml_root.PurchaseInvoices = <<>> THEN errors
    ELSE IF xml_root.PurchaseInvoices[1].Invoice = <<>>
    THEN Append(errors, <<"PurchaseInvoices sem Invoice.">>)
    ELSE PurchaseInvoicesLoop(xml_root.PurchaseInvoices[1].Invoice,
                              KeysOf(xml_root.Supplier, "SupplierID"),
                              KeysOf(xml_root.Product, "ProductCode"), errors)

(***************************************************************************)
(* app.py: the OCR route.  The text the OCR engine gives is a sequence of  *)
(* characters with "\n" between its lines.  A regular expression is a      *)
(* tree; ReMatch gives every way it matches at a position, in the order in *)
(* which Python's re tries them, so that the first one is the match that   *)
(* re.search reports.                                                      *)
(***************************************************************************)
\* one character of the set S
Ch(S) == [t |-> "ch", S |-> S]

\* rs[1] rs[2] ...
Sq(rs) == [t |-> "seq", rs |-> rs]

\* rs[1] | rs[2] | ...
Alt(rs) == [t |-> "alt", rs |-> rs]

\* r{lo,hi}, hi = -1 for no limit; lazy for r{lo,hi}?
Rep(r, lo, hi, lazy) == [t |-> "rep", r |-> r, lo |-> lo, hi |-> hi, lazy |-> lazy]

\* r*, r+, r?
Star(r) == Rep(r, 0, 0 - 1, FALSE)

Plus(r) == Rep(r, 1, 0 - 1, FALSE)

Opt(r) == Rep(r, 0, 1, FALSE)

\* the n-th group (r)
Grp(n, r) == [t |-> "grp", n |-> n, r |-> r]

\* \b and ^
WordB == [t |-> "wb"]

Bol == [t |-> "bol"]

\* the literal text str
Lit(str) == Sq([i \in 1..Len(str) |-> Ch({SubSeq(str, i, i)})])

ToUpper(c) ==
    IF c \in Lower THEN UPPERCASE[CHOOSE i \in 1..26 : LOWERCASE[i] = c] ELSE c

\* the set S under re.I
AnyCase(S) == {ToLower(c) : c \in S} \cup {ToUpper(c) : c \in S}

\* the literal text str under re.I
LitI(str) == Sq([i \in 1..Len(str) |-> Ch(AnyCase({SubSeq(str, i, i)}))])

\* \w on the characters of the model
WordChar == AlNum \cup {"_", "ê", "ã", "º"}

\* . : any character but "\n"
Dot == [t |-> "any"]

NoCaps == <<<<0, 0>>, <<0, 0>>, <<0, 0>>>>

IsWordB(s, i) ==
    (i > 1 /\ s[i - 1] \in WordChar) # (i <= Len(s) /\ s[i] \in WordChar)

\* the matches xs of a group that started at i, recorded as group n
SetCap(xs, n, i) ==
    [k \in 1..Len(xs) |-> [pos |-> xs[k].pos,
                           caps |-> [xs[k].caps EXCEPT ![n] = <<i, xs[k].pos>>]]]

\* the matches of xs that consumed something after i
Advanced(xs, i) == SelectSeq(xs, LAMBDA x : x.pos > i)

\* the least number of a set of numbers
Least(S) == CHOOSE x \in S : \A y \in S : x <= y

\* s[j] is not matched by the one-character expression c
Unmatched(c, s, j) == IF c.t = "any" THEN s[j] = "\n" ELSE s[j] \notin c.S

\* how many characters from position i on the one-character expression c matches
RunEnd(s, i, stops) == IF stops = {} THEN Len(s) - i + 1 ELSE Least(stops) - i

RunLen(c, s, i) == RunEnd(s, i, {j \in i..Len(s) : Unmatched(c, s, j)})

\* c{lo,hi} on a run of k characters: the ends from the preferred one on
RunEnds(r, i, top, caps) ==
    [j \in 1..(top - r.lo + 1) |->
        [pos |-> IF r.lazy THEN i + r.lo + (j - 1) ELSE i + top - (j - 1), caps |-> caps]]

RunRep(r, i, k, caps) ==
    IF k < r.lo THEN <<>>
    ELSE RunEnds(r, i, IF r.hi # 0 - 1 /\ r.hi < k THEN r.hi ELSE k, caps)

RECURSIVE ReMatch(_, _, _, _)
RECURSIVE ReEach(_, _, _)
RECURSIVE ReSeq(_, _, _, _)
RECURSIVE ReAlt(_, _, _, _, _)
RECURSIVE ReRep(_, _, _, _, _)
RECURSIVE ReRepEach(_, _, _, _)

\* the matches of r at position i of s, the preferred one first
ReMatch(r, s, i, caps) ==
    CASE r.t = "ch" ->
            IF i <= Len(s) /\ s[i] \in r.S THEN <<[pos |-> i + 1, caps |-> caps]>>
            ELSE <<>>
      [] r.t = "any" ->
            IF i <= Len(s) /\ s[i] # "\n" THEN <<[pos |-> i + 1, caps |-> caps]>>
            ELSE <<>>
      [] r.t = "seq" -> ReSeq(r.rs, 1, s, <<[pos |-> i, caps |-> caps]>>)
      [] r.t = "alt" -> ReAlt(r.rs, 1, s, i, caps)
      [] r.t = "rep" ->
            IF r.r.t \in {"ch", "any"} THEN RunRep(r, i, RunLen(r.r, s, i), caps)
            ELSE ReRep(r, 0, s, i, caps)
      [] r.t = "grp" -> SetCap(ReMatch(r.r, s, i, caps), r.n, i)
      [] r.t = "wb" -> IF IsWordB(s, i) THEN <<[pos |-> i, caps |-> caps]>> ELSE <<>>
      [] r.t = "bol" -> IF i = 1 THEN <<[pos |-> i, caps |-> caps]>> ELSE <<>>

\* r continued from each of the matches xs
ReEach(r, s, xs) ==
    IF xs = <<>> THEN <<>>
    ELSE IF Len(xs) = 1 THEN ReMatch(r, s, xs[1].pos, xs[1].caps)
    ELSE ReEach(r, s, SubSeq(xs, 1, Len(xs) \div 2))
         \o ReEach(r, s, SubSeq(xs, Len(xs) \div 2 + 1, Len(xs)))

ReSeq(rs, k, s, xs) ==
    IF k > Len(rs) \/ xs = <<>> THEN xs ELSE ReSeq(rs, k + 1, s, ReEach(rs[k], s, xs))

ReAlt(rs, k, s, i, caps) ==
    IF k > Len(rs) THEN <<>>
    ELSE ReMatch(rs[k], s, i, caps) \o ReAlt(rs, k + 1, s, i, caps)

\* r.r matched n times so far
ReRep(r, n, s, i, caps) ==
    IF r.hi # 0 - 1 /\ n >= r.hi THEN <<[pos |-> i, caps |-> caps]>>
    ELSE IF n < r.lo THEN ReRepEach(r, n + 1, s, ReMatch(r.r, s, i, caps))
    ELSE IF r.lazy
    THEN <<[pos |-> i, caps |-> caps]>>
         \o ReRepEach(r, n + 1, s, Advanced(ReMatch(r.r, s, i, caps), i))
    ELSE ReRepEach(r, n + 1, s, Advanced(ReMatch(r.r, s, i, caps), i))
         \o <<[pos |-> i, caps |-> caps]>>

ReRepEach(r, n, s, xs) ==
    IF xs = <<>> THEN <<>>
    ELSE IF Len(xs) = 1 THEN ReRep(r, n, s, xs[1].pos, xs[1].caps)
    ELSE ReRepEach(r, n, s, SubSeq(xs, 1, Len(xs) \div 2))
         \o ReRepEach(r, n, s, SubSeq(xs, Len(xs) \div 2 + 1, Len(xs)))

\* what re.search gives when nothing matches
NoMatch == [start |-> 0, end |-> 0, caps |-> NoCaps]

ReFound(i, xs) == [start |-> i, end |-> xs[1].pos, caps |-> xs[1].caps]

ReFirst(r, s, starts) ==
    IF starts = {} THEN NoMatch
    ELSE ReFound(Least(starts), ReMatch(r, s, Least(starts), NoCaps))

\* re.search(r, s) from position i on: the leftmost position with a match
ReSearchFrom(r, s, i) ==
    ReFirst(r, s, {j \in i..(Len(s) + 1) : ReMatch(r, s, j, NoCaps) # <<>>})

re_search(r, s) == ReSearchFrom(r, s, 1)

\* m.group(n)
Group(m, s, n) == SubSeq(s, m.caps[n][1], m.caps[n][2] - 1)

\* m.group(1), or None
Group1(m, s) == IF m.start = 0 THEN None ELSE Group(m, s, 1)

\* re.findall(r, s) of an expression with one group
RECURSIVE FindAllFrom(_, _, _)
FindAllNext(r, s, m) ==
    IF m.start = 0 THEN <<>>
    ELSE <<Group(m, s, 1)>> \o FindAllFrom(r, s, IF m.end > m.start THEN m.end ELSE m.end + 1)

FindAllFrom(r, s, i) == FindAllNext(r, s, ReSearchFrom(r, s, i))

re_findall(r, s) == FindAllFrom(r, s, 1)

\* p in s
Contains(s, p) == \E i \in 1..(Len(s) - Len(p) + 1) : SubSeq(s, i, i + Len(p) - 1) = p

\* the positions where a maximal run of s without characters of Sep starts
RunStarts(s, Sep) ==
    {i \in 1..Len(s) : s[i] \notin Sep /\ (i = 1 \/ s[i - 1] \in Sep)}

\* the run that starts at i
RunAt(s, Sep, i) == SubSeq(s, i, RunEnd(s, i, {j \in i..Len(s) : s[j] \in Sep}) + i - 1)

\* the k-th number of S
Nth(S, k) == CHOOSE x \in S : Cardinality({y \in S : y < x}) = k - 1

RunsFrom(s, Sep, starts) == [k \in 1..Cardinality(starts) |-> RunAt(s, Sep, Nth(starts, k))]

\* the maximal runs of s without characters of Sep, in order
Runs(s, Sep) == RunsFrom(s, Sep, RunStarts(s, Sep))

\* s.split()
Split(s) == Runs(s, Space)

\* the lines of s.splitlines() that are not empty
SplitLines(s) == Runs(s, {"\n"})

\* sep.join(ws)
RECURSIVE Join(_, _)
Join(ws, sep) ==
    IF ws = <<>> THEN <<>>
    ELSE IF Len(ws) = 1 THEN ws[1]
    ELSE Join(SubSeq(ws, 1, Len(ws) \div 2), sep) \o sep
         \o Join(SubSeq(ws, Len(ws) \div 2 + 1, Len(ws)), sep)

StripAll(ls) == [i \in 1..Len(ls) |-> Strip(ls[i])]

_lines(text_raw) == SelectSeq(StripAll(SplitLines(text_raw)), LAMBDA ln : ln # <<>>)

_norm(text_raw) == Join(Split(text_raw), <<" ">>)

\* if the value is None or "": the other branch of "x or y", "not x", "if x"
Falsy(x) == x = None \/ x = <<>>

\* _unique(seq)
RECURSIVE _unique(_, _)
_unique(seq, out) ==
    IF seq = <<>> THEN out
    ELSE _unique(Tail(seq), IF Head(seq) \in Range(out) THEN out ELSE Append(out, Head(seq)))

D == Ch(Digit)

\* _money_re() as group n
Money(n) ==
    Grp(n, Alt(<<Sq(<<Rep(D, 1, 3, FALSE), Star(Sq(<<Ch({"."}), Rep(D, 3, 3, FALSE)>>)),
                      Ch({","}), Rep(D, 2, 2, FALSE)>>),
                 Sq(<<Plus(D), Ch({","}), Rep(D, 2, 2, FALSE)>>),
                 Sq(<<Plus(D), Ch({"."}), Rep(D, 2, 2, FALSE)>>)>>))

\* _find_first(patterns, text): group 1 of the first pattern that matches
RECURSIVE _find_first(_, _)
FirstOr(patterns, text, m) ==
    IF m.start # 0 THEN Group(m, text, 1) ELSE _find_first(Tail(patterns), text)

_find_first(patterns, text) ==
    IF patterns = <<>> THEN None ELSE FirstOr(patterns, text, re_search(Head(patterns), text))

DOC_WARN_NAO_FATURA == <<"Este documento nao serve de fatura (proposta/orcamento).">>

DOC_WARN_DESCONHECIDO == <<"Tipo de documento nao identificado com confianca.">>

\* _doc_type(text_norm): <<doc_type, doc_warn>>
DocTypeOf(low) ==
    IF Contains(low, Chars("não serve de fatura")) \/ Contains(low, Chars("nao serve de fatura"))
    THEN <<"NAO_FATURA", DOC_WARN_NAO_FATURA>>
    ELSE IF Contains(low, Chars("fatura")) \/ Contains(low, Chars("factura"))
    THEN <<"FATURA", None>>
    ELSE <<"DESCONHECIDO", DOC_WARN_DESCONHECIDO>>

_doc_type(text_norm) == DocTypeOf(lower(text_norm))

\* (?:PT[\s\-:]*)?(\d{9})
RE_NIF == Sq(<<Opt(Sq(<<Lit("PT"), Star(Ch(Space \cup {"-", ":"}))>>)), Grp(1, Rep(D, 9, 9, FALSE))>>)

_extract_nifs(text_norm) == _unique(re_findall(RE_NIF, text_norm), <<>>)

\* the first n of nifs_validos with n in ln, or None
RECURSIVE NifInLine(_, _)
NifInLine(ln, nifs_validos) ==
    IF nifs_validos = <<>> THEN None
    ELSE IF Contains(ln, Head(nifs_validos)) THEN Head(nifs_validos)
    ELSE NifInLine(ln, Tail(nifs_validos))

\* "contribu" in low or "contrib." in low or "contrib:" in low
ContribMarker_Word(low) == Contains(low, Chars("contribuinte"))

ContribMarker(low) ==
    Contains(low, Chars("contribu")) \/ Contains(low, Chars("contrib."))
        \/ Contains(low, Chars("contrib:"))

RECURSIVE _guess_customer_nif(_, _)
CustomerNifOr(lines, nifs_validos, n) ==
    IF n # None THEN n ELSE _guess_customer_nif(Tail(lines), nifs_validos)

_guess_customer_nif(lines, nifs_validos) ==
    IF lines = <<>> THEN (IF nifs_validos = <<>> THEN None ELSE nifs_validos[1])
    ELSE IF ContribMarker(lower(Head(lines)))
    THEN CustomerNifOr(lines, nifs_validos, NifInLine(Head(lines), nifs_validos))
    ELSE _guess_customer_nif(Tail(lines), nifs_validos)

\* the first n of nifs_validos with customer_nif and n != customer_nif
SupplierDiffers_Any(n, customer_nif) == TRUE

SupplierDiffers(n, customer_nif) == ~Falsy(customer_nif) /\ n # customer_nif

RECURSIVE _guess_supplier_nif(_, _)
_guess_supplier_nif(nifs_validos, customer_nif) ==
    IF nifs_validos = <<>> THEN None
    ELSE IF SupplierDiffers(Head(nifs_validos), customer_nif) THEN Head(nifs_validos)
    ELSE _guess_supplier_nif(Tail(nifs_validos), customer_nif)

WS == Ch(Space)

\* \bCIA\s+LINUX\b under re.I
RE_CIA_LINUX == Sq(<<WordB, LitI("CIA"), Plus(WS), LitI("LINUX"), WordB>>)

\* Exmos\.\s*Senhores under re.I
RE_EXMOS == Sq(<<LitI("Exmos."), Star(WS), LitI("Senhores")>>)

\* Lda|LDA|Unipessoal|S\.A\. under re.I
RE_COMPANY_I == Alt(<<LitI("Lda"), LitI("LDA"), LitI("Unipessoal"), LitI("S.A.")>>)

\* \bLDA\b|\bLda\b|S\.A\.
RE_COMPANY == Alt(<<Sq(<<WordB, Lit("LDA"), WordB>>), Sq(<<WordB, Lit("Lda"), WordB>>),
                    Lit("S.A.")>>)

\* santogal|marques under re.I
RE_KNOWN == Alt(<<LitI("santogal"), LitI("marques")>>)

Hit(r, s) == re_search(r, s).start # 0

\* the first line with CIA LINUX, or None
RECURSIVE CustomerNamed(_)
CustomerNamed(lines) ==
    IF lines = <<>> THEN None
    ELSE IF Hit(RE_CIA_LINUX, Head(lines)) THEN Strip(Head(lines))
    ELSE CustomerNamed(Tail(lines))

\* for j in range(max(0, i - 3), i), lines counted from 1
RECURSIVE CustomerAbove(_, _, _)
CustomerAbove(lines, j, i) ==
    IF j >= i THEN None
    ELSE IF Len(Strip(lines[j])) >= 4 /\ Hit(RE_COMPANY_I, Strip(lines[j]))
    THEN Strip(lines[j])
    ELSE CustomerAbove(lines, j + 1, i)

RECURSIVE CustomerExmos(_, _)
CustomerExmosOr(lines, i, cand) ==
    IF cand # None THEN cand ELSE CustomerExmos(lines, i + 1)

CustomerExmos(lines, i) ==
    IF i > Len(lines) THEN None
    ELSE IF Hit(RE_EXMOS, lines[i]) /\ i > 1
    THEN CustomerExmosOr(lines, i, CustomerAbove(lines, IF i - 3 > 1 THEN i - 3 ELSE 1, i))
    ELSE CustomerExmos(lines, i + 1)

NameOr(x, y) == IF x # None THEN x ELSE y

_guess_customer_name(lines) == NameOr(CustomerNamed(lines), CustomerExmos(lines, 1))

\* s.strip(".")
RECURSIVE StripDots(_)
StripDots(s) ==
    IF s # <<>> /\ Head(s) = "." THEN StripDots(Tail(s))
    ELSE IF s # <<>> /\ s[Len(s)] = "." THEN StripDots(SubSeq(s, 1, Len(s) - 1))
    ELSE s

\* the first loop of _guess_supplier_name
RECURSIVE SupplierHead(_)
SupplierHead(lines) ==
    IF lines = <<>> THEN None
    ELSE IF /\ Hit(RE_COMPANY, Head(lines))
            /\ ~Hit(RE_CIA_LINUX, Head(lines))
            /\ \/ Contains(lower(Head(lines)), Chars("marques"))
               \/ Contains(lower(Head(lines)), Chars("santogal"))
    THEN StripDots(Strip(Head(lines)))
    ELSE SupplierHead(Tail(lines))

\* the second loop of _guess_supplier_name
RECURSIVE SupplierTail(_)
SupplierTail(lines) ==
    IF lines = <<>> THEN None
    ELSE IF Hit(RE_COMPANY, Head(lines)) /\ Hit(RE_KNOWN, Head(lines))
    THEN StripDots(Strip(Head(lines)))
    ELSE SupplierTail(Tail(lines))

_guess_supplier_name(lines) ==
    NameOr(SupplierHead(SubSeq(lines, 1, IF Len(lines) < 40 THEN Len(lines) ELSE 40)),
           SupplierTail(SubSeq(lines, IF Len(lines) > 50 THEN Len(lines) - 49 ELSE 1,
                               Len(lines))))

\* \b([A-Z0-9]{8,}-\d{1,})\b
RE_ATCUD ==
    Sq(<<WordB, Grp(1, Sq(<<Rep(Ch(Upper \cup Digit), 8, 0 - 1, FALSE), Ch({"-"}), Plus(D)>>)),
         WordB>>)

_extract_atcud(text_norm) == Group1(re_search(RE_ATCUD, text_norm), text_norm)

\* \b(XX\s+\d+/\d+)\b under re.I
RE_SERIES(xx) ==
    Sq(<<WordB, Grp(1, Sq(<<LitI(xx), Plus(WS), Plus(D), Ch({"/"}), Plus(D)>>)), WordB>>)

INVOICE_NO_PATTERNS ==
    <<Sq(<<WordB, Grp(1, Sq(<<LitI("NFT"), Plus(WS), LitI("FTA/"), Plus(D)>>)), WordB>>),
      Sq(<<WordB, Grp(1, Sq(<<Rep(Ch(AnyCase(Upper)), 1, 4, FALSE), Ch({"/"}),
                              Rep(D, 3, 0 - 1, FALSE)>>)), WordB>>),
      RE_SERIES("FT"), RE_SERIES("FA"), RE_SERIES("FR"), RE_SERIES("FS"),
      RE_SERIES("NC"), RE_SERIES("ND")>>

_extract_invoice_no(text_norm) == _find_first(INVOICE_NO_PATTERNS, text_norm)

\* [0-3]\d/[01]\d/\d{4}
RE_DMY == Sq(<<Ch({"0", "1", "2", "3"}), D, Ch({"/"}), Ch({"0", "1"}), D, Ch({"/"}),
               Rep(D, 4, 4, FALSE)>>)

\* \bData:\s*([0-3]\d/[01]\d/\d{4})\b under re.I
RE_DATA == Sq(<<WordB, LitI("Data:"), Star(WS), Grp(1, RE_DMY), WordB>>)

\* \b([0-3]\d/[01]\d/\d{4})\b
RE_DATE_DMY == Sq(<<WordB, Grp(1, RE_DMY), WordB>>)

\* \b(\d{4}-[01]\d-[0-3]\d)\b
RE_DATE_ISO ==
    Sq(<<WordB, Grp(1, Sq(<<Rep(D, 4, 4, FALSE), Ch({"-"}), Ch({"0", "1"}), D, Ch({"-"}),
                            Ch({"0", "1", "2", "3"}), D>>)), WordB>>)

\* the first loop of _extract_date
RECURSIVE DateOfLines(_)
DateOfLineOr(lines, m) ==
    IF m.start # 0 THEN Group(m, Head(lines), 1) ELSE DateOfLines(Tail(lines))

DateOfLines(lines) ==
    IF lines = <<>> THEN None ELSE DateOfLineOr(lines, re_search(RE_DATA, Head(lines)))

_extract_date(text_norm, lines) ==
    NameOr(DateOfLines(SubSeq(lines, 1, IF Len(lines) < 60 THEN Len(lines) ELSE 60)),
           _find_first(<<RE_DATE_DMY, RE_DATE_ISO>>, text_norm))

\* programa\s+certificado\s+n[ºo]\.?\s*\d+\/AT under re.I
RE_CERT ==
    Sq(<<LitI("programa"), Plus(WS), LitI("certificado"), Plus(WS), LitI("n"),
         Ch({"º", "o", "O"}), Opt(Ch({"."})), Star(WS), Plus(D), LitI("/AT")>>)

_detect_program_cert(text_norm) == Hit(RE_CERT, text_norm)

\* \bQR\b|QRCode|QR\-Code under re.I
RE_QR == Alt(<<Sq(<<WordB, LitI("QR"), WordB>>), LitI("QRCode"), LitI("QR-Code")>>)

_detect_qr_hint(text_norm) == Hit(RE_QR, text_norm)

\* \bTOTAL\b
RE_TOTAL_WORD == Sq(<<WordB, Lit("TOTAL"), WordB>>)

\* \bTOTAL\b.*?money under re.I
RE_TOTAL == Sq(<<WordB, LitI("TOTAL"), WordB, Rep(Dot, 0, 0 - 1, TRUE), Money(1)>>)

\* TOTAL\s*\(Euros\)\s*money under re.I
RE_TOTAL_EUROS == Sq(<<LitI("TOTAL"), Star(WS), LitI("(Euros)"), Star(WS), Money(1)>>)

\* \bValor\s*Base\s*:\s*money under re.I
RE_BASE ==
    Sq(<<WordB, LitI("Valor"), Star(WS), LitI("Base"), Star(WS), Ch({":"}), Star(WS), Money(1)>>)

\* \bIVA\s*:\s*money under re.I
RE_IVA == Sq(<<WordB, LitI("IVA"), Star(WS), Ch({":"}), Star(WS), Money(1)>>)

\* Incid[êe]ncia.*Valor\s*IVA under re.I
RE_TABLE_IVA ==
    Sq(<<LitI("Incid"), Ch({"ê", "Ê", "e", "E"}), LitI("ncia"), Star(Dot), LitI("Valor"),
         Star(WS), LitI("IVA")>>)

\* Incid[êe]ncia.*Taxa under re.I
RE_TABLE_TAXA ==
    Sq(<<LitI("Incid"), Ch({"ê", "Ê", "e", "E"}), LitI("ncia"), Star(Dot), LitI("Taxa")>>)

\* ^\s*money\s+money\s+money
RE_ROW == Sq(<<Bol, Star(WS), Money(1), Plus(WS), Money(2), Plus(WS), Money(3)>>)

\* \bIVA\s*(?:23%|23)\b.*?money under re.I
RE_IVA_23 ==
    Sq(<<WordB, LitI("IVA"), Star(WS), Alt(<<Lit("23%"), Lit("23")>>), WordB,
         Rep(Dot, 0, 0 - 1, TRUE), Money(1)>>)

\* m.group(n) when m matched, else old
GroupOr(m, s, n, old) == IF m.start # 0 THEN Group(m, s, n) ELSE old

\* the first loop of _extract_totals
RECURSIVE TotalLoop(_, _)
TotalLoop(lines, total) ==
    IF lines = <<>> THEN total
    ELSE TotalLoop(Tail(lines),
                   IF Hit(RE_TOTAL_WORD, Head(lines))
                   THEN GroupOr(re_search(RE_TOTAL, Head(lines)), Head(lines), 1, total)
                   ELSE total)

\* if not total: the TOTAL (Euros) phrase of the whole text
TotalEuros(total, text_norm) ==
    IF Falsy(total) THEN GroupOr(re_search(RE_TOTAL_EUROS, text_norm), text_norm, 1, total)
    ELSE total

\* the second loop: the labelled lines
RECURSIVE LabelLoop(_, _)
LabelLoop(lines, t) ==
    IF lines = <<>> THEN t
    ELSE LabelLoop(Tail(lines),
                   [t EXCEPT !.base = GroupOr(re_search(RE_BASE, Head(lines)), Head(lines), 1, @),
                             !.iva = GroupOr(re_search(RE_IVA, Head(lines)), Head(lines), 1, @)])

\* x or y
PyOr(x, y) == IF Falsy(x) THEN y ELSE x

\* the row m of a table overwriting what was found
RowTaken_Overwrite(t, m, ln) ==
    [t EXCEPT !.base = Group(m, ln, 1), !.taxa = Group(m, ln, 2), !.iva = Group(m, ln, 3)]

\* base = base or m.group(1); taxa = taxa or m.group(2); iva = iva or m.group(3)
RowTaken(t, m, ln) ==
    [t EXCEPT !.base = PyOr(@, Group(m, ln, 1)),
              !.taxa = PyOr(@, Group(m, ln, 2)),
              !.iva = PyOr(@, Group(m, ln, 3))]

\* for j in range(i + 1, min(i + 6, len(lines))), lines counted from 1
RECURSIVE RowLoop(_, _, _, _)
RowOr(lines, j, hi, t, m) ==
    IF m.start # 0 THEN RowTaken(t, m, lines[j]) ELSE RowLoop(lines, j + 1, hi, t)

RowLoop(lines, j, hi, t) ==
    IF j > hi THEN t ELSE RowOr(lines, j, hi, t, re_search(RE_ROW, lines[j]))

\* the third loop: the tax breakdown tables
RECURSIVE TableLoop(_, _, _)
TableLoop(lines, i, t) ==
    IF i > Len(lines) THEN t
    ELSE TableLoop(lines, i + 1,
                   IF Hit(RE_TABLE_IVA, lines[i]) \/ Hit(RE_TABLE_TAXA, lines[i])
                   THEN RowLoop(lines, i + 1, IF i + 5 < Len(lines) THEN i + 5 ELSE Len(lines), t)
                   ELSE t)

\* if not iva: the generic pattern of the whole text
Iva23(t, text_norm) ==
    IF Falsy(t.iva)
    THEN [t EXCEPT !.iva = GroupOr(re_search(RE_IVA_23, text_norm), text_norm, 1, @)]
    ELSE t

_extract_totals(lines, text_norm) ==
    Iva23(TableLoop(lines, 1,
                    LabelLoop(lines, [base |-> None, iva |-> None, taxa |-> None,
                                      total |-> TotalEuros(TotalLoop(lines, None), text_norm)])),
          text_norm)

(***************************************************************************)
(* round(x, 2) and f"{x:.2f}": both write the exact value of the float to  *)
(* two decimals, ties to even; round() reads the text back as a float.     *)
(***************************************************************************)
\* q1s = <<the hundredths and one more bit, sticky>>
CentsHalf(q1, sticky, q) ==
    IF BNIsOdd(q1) /\ (sticky \/ BNIsOdd(q)) THEN BNAdd(q, <<1>>) ELSE q

CentsRound(q1s) == CentsHalf(q1s[1], q1s[2], BNShrSticky(q1s[1], 1)[1])

\* |x| in hundredths, to the nearest, ties to even
Cents(x) ==
    IF x.m = <<>> THEN <<>>
    ELSE IF x.e >= 0 THEN BNShl(BNMulSmall(x.m, 100), x.e)
    ELSE CentsRound(BNShrSticky(BNMulSmall(x.m, 100), (0 - x.e) - 1))

\* the decimal figures of a
RECURSIVE BNDigits(_)
BNDigitsOf(qr) == BNDigits(qr[1]) \o <<DIGITS[qr[2] + 1]>>

BNDigits(a) == IF a = <<>> THEN <<>> ELSE BNDigitsOf(BNDivSmall(a, 10))

\* the figures ds written with two decimals
FixedText(sign, ds) ==
    (IF sign = 1 THEN <<"-">> ELSE <<>>)
    \o (IF Len(ds) <= 2 THEN <<"0">> ELSE SubSeq(ds, 1, Len(ds) - 2))
    \o <<".">>
    \o (IF Len(ds) = 0 THEN <<"0", "0">>
        ELSE IF Len(ds) = 1 THEN <<"0">> \o ds
        ELSE SubSeq(ds, Len(ds) - 1, Len(ds)))

\* f"{x:.2f}"
Format2f(x) == FixedText(x.sign, BNDigits(Cents(x)))

\* round(x, 2)
Round2(x) == float(Format2f(x))

\* a >= b for a >= 0 and b >= 0
FGe(a, b) == ~FGt(b, a)

\* the dash _field shows for a value that is None or ""
DASH == <<"--">>

INFERRED_NOTE == <<"Base inferida por Total - IVA (nao extraida diretamente).">>

\* the decimal point left as float writes it
BaseCalc_Dot(tv, iv) == Format2f(Round2(FSub(tv, iv)))

\* base_s = f"{round(tv - iv, 2):.2f}".replace(".", ",")
BaseCalc(tv, iv) == Replace(Format2f(Round2(FSub(tv, iv))), <<".">>, <<",">>)

\* the inference made whatever the order of the two amounts
InferOf_NoOrder(t, iv, tv) ==
    IF iv # NoNumber /\ tv # NoNumber
    THEN [t EXCEPT !.base = BaseCalc(tv, iv), !.inferred_note = INFERRED_NOTE]
    ELSE t

\* if iv is not None and tv is not None and tv >= iv
InferOf(t, iv, tv) ==
    IF iv # NoNumber /\ tv # NoNumber /\ FGe(tv, iv)
    THEN [t EXCEPT !.base = BaseCalc(tv, iv), !.inferred_note = INFERRED_NOTE]
    ELSE t

\* the base inference of purchase_pdf() on t = [base, iva, total, taxa, inferred_note]
InferBase_Always(t) ==
    IF ~Falsy(t.iva) /\ ~Falsy(t.total)
    THEN InferOf(t, _parse_money(t.iva), _parse_money(t.total))
    ELSE t

InferBase(t) ==
    IF (Falsy(t.base) \/ t.base = DASH) /\ ~Falsy(t.iva) /\ ~Falsy(t.total)
    THEN InferOf(t, _parse_money(t.iva), _parse_money(t.total))
    ELSE t

\* _field(label, value, status, note)
_field(label, value, status, note) ==
    [label |-> label,
     value |-> IF value = None \/ value = <<>> THEN DASH ELSE value,
     status |-> status,
     note |-> IF Falsy(note) THEN <<>> ELSE note]

\* "ok" if x else "warn"
OkIf(x) == IF x THEN "ok" ELSE "warn"

DETETADO == <<"Detetado">>

DETETADO_QR == <<"Detetado (best-effort)">>

INCONCLUSIVO == <<"Inconclusivo">>

JoinOrNone(xs) == IF xs = <<>> THEN None ELSE Join(xs, <<",", " ">>)

\* the field map of purchase_pdf()
InvoiceFields(l) ==
    [doc_type |-> _field("Tipo de documento", <<l.doc_type>>, OkIf(l.doc_type = "FATURA"), None),
     numero |-> _field("N. documento", l.invno, OkIf(~Falsy(l.invno)), None),
     data |-> _field("Data", l.date, OkIf(~Falsy(l.date)), None),
     atcud |-> _field("ATCUD", l.atcud, OkIf(~Falsy(l.atcud)), None),
     fornecedor_nome |-> _field("Fornecedor (nome)", l.fornecedor_nome,
                                OkIf(~Falsy(l.fornecedor_nome)), None),
     fornecedor_nif |-> _field("Fornecedor (NIF)", l.fornecedor_nif,
                               OkIf(~Falsy(l.fornecedor_nif)), None),
     cliente_nome |-> _field("Cliente (nome)", l.cliente_nome, OkIf(~Falsy(l.cliente_nome)), None),
     cliente_nif |-> _field("Cliente (NIF)", l.cliente_nif, OkIf(~Falsy(l.cliente_nif)), None),
     taxa |-> _field("Taxa IVA (se detetada)", l.taxa_s, OkIf(~Falsy(l.taxa_s)), None),
     base |-> _field("Base tributavel / Valor Base", l.base_s,
                     IF ~Falsy(l.inferred_note) THEN "inferido" ELSE OkIf(~Falsy(l.base_s)),
                     l.inferred_note),
     iva |-> _field("IVA", l.iva_s, OkIf(~Falsy(l.iva_s)), None),
     total |-> _field("Total", l.total_s, OkIf(~Falsy(l.total_s)), None),
     software_cert |-> _field("Programa certificado AT",
                              IF l.sw_cert THEN DETETADO ELSE INCONCLUSIVO, OkIf(l.sw_cert), None),
     qr |-> _field("QR Code", IF l.qr_hint THEN DETETADO_QR ELSE INCONCLUSIVO,
                   OkIf(l.qr_hint), None),
     nifs_detectados |-> _field("NIFs detetados (OCR)", JoinOrNone(l.nifs),
                                OkIf(l.nifs # <<>>), None),
     nifs_validos |-> _field("NIFs PT validos", JoinOrNone(l.nifs_validos),
                             OkIf(l.nifs_validos # <<>>), None)]

\* _parse_money(x) if x else None
MoneyOrNone(x) == IF Falsy(x) THEN NoNumber ELSE _parse_money(x)

TOTAIS_INCOERENTES == <<"Totais incoerentes: Base + IVA != Total (ou OCR leu mal).">>

TOTAIS_CONFIANCA == <<"Totais/IVA nao foram extraidos com confianca (layout/scan).">>

\* abs((b + i) - t) > 0.05
CoherenceTolerance_Cent(b, i, t) == AbsDiffGt(FAdd(b, i), t, Chars("0.01"))

CoherenceTolerance(b, i, t) == AbsDiffGt(FAdd(b, i), t, Chars("0.05"))

\* the coherence check of purchase_pdf(): <<errors, status_code>>
CoherenceOf(b, i, t, errors, status_code) ==
    IF b # NoNumber /\ i # NoNumber /\ t # NoNumber
    THEN (IF CoherenceTolerance(b, i, t) THEN <<Append(errors, TOTAIS_INCOERENTES), 422>>
          ELSE <<errors, status_code>>)
    ELSE <<Append(errors, TOTAIS_CONFIANCA), 422>>

\* s.split(sep) on a one-character separator
RECURSIVE SplitOn(_, _, _)
SplitOn(s, sep, part) ==
    IF s = <<>> THEN <<part>>
    ELSE IF Head(s) = sep THEN <<part>> \o SplitOn(Tail(s), sep, <<>>)
    ELSE SplitOn(Tail(s), sep, Append(part, Head(s)))

\* datetime(int(yyyy), int(mm), int(dd)) on the three numbers
DateTimeOf_NoLeap(y, m, d) ==
    IF y = Raise \/ m = Raise \/ d = Raise THEN Raise
    ELSE IF y.int \in 1..9999 /\ m.int \in 1..12 /\ d.int >= 1
            /\ d.int <= DaysInMonth(2023, m.int)
    THEN [y |-> y.int, m |-> m.int, d |-> d.int] ELSE Raise

DateTimeOf(y, m, d) ==
    IF y = Raise \/ m = Raise \/ d = Raise THEN Raise
    ELSE IF y.int <= 9999 THEN MakeDate(y.int, m.int, d.int) ELSE Raise

\* dd, mm, yyyy = date.split("/"); datetime(int(yyyy), int(mm), int(dd))
DateTry(parts) ==
    IF Len(parts) # 3 THEN Raise ELSE DateTimeOf(int(parts[3]), int(parts[2]), int(parts[1]))

DATA_INVALIDA == <<"Data invalida (OCR pode ter lido mal).">>

\* the date check of purchase_pdf(): <<errors, status_code>>
DateCheckOf(date, errors, status_code) ==
    IF ~Falsy(date) /\ "/" \in Range(date) /\ DateTry(SplitOn(date, "/", <<>>)) = Raise
    THEN <<Append(errors, DATA_INVALIDA), 422>>
    ELSE <<errors, status_code>>

(***************************************************************************)
(* app.py index(): the primary XML flow.                                   *)
(***************************************************************************)
VARIABLES xml_root, errors, errors0, pc, trace, ran, valid, status, locals

vars == <<xml_root, errors, errors0, pc, trace, ran, valid, status, locals>>

\* index() keeps nothing of the other route: locals holds the local variables
\* of purchase_pdf() and of the parser functions run on their own
NoLocals == <<>>

\* the order of the calls of index()
PASSES == <<"header", "datas", "nif", "tax_table", "sales_invoices",
            "atcud_hash", "customers", "products", "payments">>

\* the passes index() does not import
EXTENDED == <<"suppliers", "purchase_invoices">>

\* the state of index() when a POST arrives carrying the document d
InitIndex(d) ==
    /\ xml_root = d
    /\ errors = <<>>
    /\ errors0 = <<>>
    /\ pc = "request"
    /\ trace = <<>>
    /\ ran = {}
    /\ valid = FALSE
    /\ status = 200
    /\ locals = NoLocals

\* not f or not f.filename.lower().endswith(".xml")
BadFile ==
    /\ pc = "request"
    /\ errors' = Append(errors, <<"Ficheiro XML invalido.">>)
    /\ status' = 400
    /\ pc' = "done"
    /\ UNCHANGED <<locals, xml_root, errors0, trace, ran, valid>>

\* etree.parse or the loading of the XSD raises
ParseFails ==
    /\ pc = "request"
    /\ errors' = Append(errors, <<"str(e)">>)
    /\ status' = 500
    /\ pc' = "done"
    /\ UNCHANGED <<locals, xml_root, errors0, trace, ran, valid>>

\* schema.validate(xml) is false: one message per entry of the error log
SchemaInvalid ==
    /\ pc = "request"
    /\ \E n \in {1, 2} :
          errors' = errors \o [i \in 1..n |-> <<"Linha {e.line}: {e.message}", i>>]
    /\ status' = 422
    /\ pc' = "done"
    /\ UNCHANGED <<locals, xml_root, errors0, trace, ran, valid>>

\* schema.validate(xml) is true
SchemaValid ==
    /\ pc = "request"
    /\ pc' = PASSES[1]
    /\ UNCHANGED <<locals, xml_root, errors, errors0, trace, ran, valid, status>>

\* CallPass going to the verdict as soon as the accumulator is not empty
CallPass_ShortCircuit(i, after) ==
    /\ pc = PASSES[i]
    /\ errors' = after
    /\ trace' = Append(trace, PASSES[i])
    /\ ran' = ran \cup {PASSES[i]}
    /\ pc' = IF i < Len(PASSES) /\ after = <<>> THEN PASSES[i + 1] ELSE "decide"
    /\ UNCHANGED <<locals, xml_root, errors0, valid, status>>

\* the i-th call of index(), leaving the accumulator after
CallPass(i, after) ==
    /\ pc = PASSES[i]
    /\ errors' = after
    /\ trace' = Append(trace, PASSES[i])
    /\ ran' = ran \cup {PASSES[i]}
    /\ pc' = IF i < Len(PASSES) THEN PASSES[i + 1] ELSE "decide"
    /\ UNCHANGED <<locals, xml_root, errors0, valid, status>>

Header == CallPass(1, validar_header(xml_root, errors))

Datas == CallPass(2, validar_datas(xml_root, errors))

Nif == CallPass(3, validar_nif(xml_root, errors))

TaxTable == CallPass(4, validar_tax_table(xml_root, errors))

SalesInvoices == CallPass(5, validar_sales_invoices(xml_root, errors))

AtcudHash == CallPass(6, validar_atcud_hash_sales_invoices(xml_root, errors))

Customers == CallPass(7, validar_customers(xml_root, errors))

Products == CallPass(8, validar_products(xml_root, errors))

Payments == CallPass(9, validar_payments(xml_root, errors))

\* if not errors: valid = True (extract_invoice_view only reads the tree)
DecideValid ==
    /\ pc = "decide"
    /\ errors = <<>>
    /\ valid' = TRUE
    /\ pc' = "done"
    /\ UNCHANGED <<locals, xml_root, errors, errors0, trace, ran, status>>

\* else: status = 422
DecideInvalid ==
    /\ pc = "decide"
    /\ errors # <<>>
    /\ status' = 422
    /\ pc' = "done"
    /\ UNCHANGED <<locals, xml_root, errors, errors0, trace, ran, valid>>

Next ==
    \/ BadFile
    \/ ParseFails
    \/ SchemaInvalid
    \/ SchemaValid
    \/ Header
    \/ Datas
    \/ Nif
    \/ TaxTable
    \/ SalesInvoices
    \/ AtcudHash
    \/ Customers
    \/ Products
    \/ Payments
    \/ DecideValid
    \/ DecideInvalid

(***************************************************************************)
(* app.py purchase_pdf(): the OCR route.  locals holds its local           *)
(* variables; errors, status and valid are its errors, status_code and     *)
(* valid; trace lists the steps that ran.                                  *)
(***************************************************************************)
\* the locals of purchase_pdf() when a POST arrives whose page reads as text
PdfLocals(text) ==
    [ocr_text_raw |-> text, lines |-> <<>>, text_norm |-> <<>>, doc_type |-> "",
     nifs |-> <<>>, nifs_validos |-> <<>>, cliente_nif |-> None, fornecedor_nif |-> None,
     cliente_nome |-> None, fornecedor_nome |-> None, atcud |-> None, invno |-> None,
     date |-> None, base_s |-> None, iva_s |-> None, total_s |-> None, taxa_s |-> None,
     inferred_note |-> None, sw_cert |-> FALSE, qr_hint |-> FALSE, invoice |-> None]

InitPdf(text) ==
    /\ locals = PdfLocals(text)
    /\ pc = "pdf_request"
    /\ xml_root = <<>>
    /\ errors = <<>>
    /\ errors0 = <<>>
    /\ trace = <<>>
    /\ ran = {}
    /\ valid = FALSE
    /\ status = 200

\* not file or not file.filename.lower().endswith(".pdf")
BadPdf ==
    /\ pc = "pdf_request"
    /\ errors' = Append(errors, <<"Ficheiro PDF invalido.">>)
    /\ status' = 400
    /\ pc' = "done"
    /\ UNCHANGED <<locals, xml_root, errors0, trace, ran, valid>>

\* reading the file, convert_from_bytes or the OCR engine raises
PdfRaises ==
    /\ pc = "pdf_request"
    /\ errors' = Append(errors, <<"str(e)">>)
    /\ status' = 500
    /\ pc' = "done"
    /\ UNCHANGED <<locals, xml_root, errors0, trace, ran, valid>>

\* if not images
NoImages ==
    /\ pc = "pdf_request"
    /\ errors' = Append(errors, <<"Nao foi possivel converter o PDF em imagem.">>)
    /\ status' = 422
    /\ pc' = "done"
    /\ UNCHANGED <<locals, xml_root, errors0, trace, ran, valid>>

OCR_CURTO == <<"OCR nao conseguiu ler texto suficiente do PDF (scan fraco).">>

MIN_OCR_CHARS == 30

\* a step of purchase_pdf() from pc = at to pc = to, leaving l, errs and code
PdfStep(at, to, l, errs, code) ==
    /\ pc = at
    /\ locals' = l
    /\ errors' = errs
    /\ status' = code
    /\ trace' = Append(trace, at)
    /\ pc' = to
    /\ UNCHANGED <<xml_root, errors0, ran, valid>>

\* the page is read: lines, text_norm and the length check
Ocr ==
    /\ pc = "pdf_request"
    /\ locals' = [locals EXCEPT !.lines = _lines(locals.ocr_text_raw),
                                !.text_norm = _norm(locals.ocr_text_raw)]
    /\ errors' = IF Len(Strip(locals.ocr_text_raw)) < MIN_OCR_CHARS
                 THEN Append(errors, OCR_CURTO) ELSE errors
    /\ status' = IF Len(Strip(locals.ocr_text_raw)) < MIN_OCR_CHARS THEN 422 ELSE status
    /\ trace' = Append(trace, "ocr")
    /\ pc' = "doc_type"
    /\ UNCHANGED <<xml_root, errors0, ran, valid>>

\* doc_type, doc_warn = _doc_type(text_norm); if doc_warn: errors.append(doc_warn)
DocTypeStep(dt) ==
    PdfStep("doc_type", "nifs", [locals EXCEPT !.doc_type = dt[1]],
            IF dt[2] # None THEN Append(errors, dt[2]) ELSE errors, status)

DocType == DocTypeStep(_doc_type(locals.text_norm))

NifsValidos(nifs) == SelectSeq(nifs, LAMBDA n : app_validar_nif_pt(n))

NifsChosen(nifs, validos, cliente) ==
    PdfStep("nifs", "names",
            [locals EXCEPT !.nifs = nifs, !.nifs_validos = validos, !.cliente_nif = cliente,
                           !.fornecedor_nif = _guess_supplier_nif(validos, cliente)],
            errors, status)

NifsFiltered(nifs, validos) ==
    NifsChosen(nifs, validos, _guess_customer_nif(locals.lines, validos))

NifsFound(nifs) == NifsFiltered(nifs, NifsValidos(nifs))

\* nifs, nifs_validos, cliente_nif, fornecedor_nif
Nifs == NifsFound(_extract_nifs(locals.text_norm))

\* cliente_nome, fornecedor_nome, atcud, invno, date
Names ==
    PdfStep("names", "totals",
            [locals EXCEPT !.cliente_nome = _guess_customer_name(locals.lines),
                           !.fornecedor_nome = _guess_supplier_name(locals.lines),
                           !.atcud = _extract_atcud(locals.text_norm),
                           !.invno = _extract_invoice_no(locals.text_norm),
                           !.date = _extract_date(locals.text_norm, locals.lines)],
            errors, status)

TotalsTaken(t) ==
    PdfStep("totals", "infer",
            [locals EXCEPT !.base_s = t.base, !.iva_s = t.iva, !.total_s = t.total,
                           !.taxa_s = t.taxa],
            errors, status)

\* totals = _extract_totals(lines, text_norm)
Totals == TotalsTaken(_extract_totals(locals.lines, locals.text_norm))

InferTaken(t) ==
    PdfStep("infer", "fields",
            [locals EXCEPT !.base_s = t.base, !.inferred_note = t.inferred_note],
            errors, status)

\* the base inference
Infer ==
    InferTaken(InferBase([base |-> locals.base_s, iva |-> locals.iva_s,
                          total |-> locals.total_s, taxa |-> locals.taxa_s,
                          inferred_note |-> None]))

FieldsOf(l) == PdfStep("fields", "coherence", [l EXCEPT !.invoice = InvoiceFields(l)],
                       errors, status)

\* sw_cert, qr_hint and the field map
Fields ==
    FieldsOf([locals EXCEPT !.sw_cert = _detect_program_cert(locals.text_norm),
                            !.qr_hint = _detect_qr_hint(locals.text_norm)])

CoherenceStep(es) == PdfStep("coherence", "date_check", locals, es[1], es[2])

\* the coherence check of the totals
Coherence ==
    CoherenceStep(CoherenceOf(MoneyOrNone(locals.base_s), MoneyOrNone(locals.iva_s),
                              MoneyOrNone(locals.total_s), errors, status))

DateCheckStep(es) == PdfStep("date_check", "pdf_decide", locals, es[1], es[2])

\* the check of the date
DateCheck == DateCheckStep(DateCheckOf(locals.date, errors, status))

\* if not errors: valid = True
PdfValid ==
    /\ pc = "pdf_decide"
    /\ errors = <<>>
    /\ valid' = TRUE
    /\ pc' = "done"
    /\ UNCHANGED <<locals, xml_root, errors, errors0, trace, ran, status>>

\* else: if status_code == 200: status_code = 422
PdfInvalid ==
    /\ pc = "pdf_decide"
    /\ errors # <<>>
    /\ status' = IF status = 200 THEN 422 ELSE status
    /\ pc' = "done"
    /\ UNCHANGED <<locals, xml_root, errors, errors0, trace, ran, valid>>

NextPdf ==
    \/ BadPdf
    \/ PdfRaises
    \/ NoImages
    \/ Ocr
    \/ DocType
    \/ Nifs
    \/ Names
    \/ Totals
    \/ Infer
    \/ Fields
    \/ Coherence
    \/ DateCheck
    \/ PdfValid
    \/ PdfInvalid

(***************************************************************************)
(* Documents.  E2E is the end-to-end document; the specifications below    *)
(* vary one part of it each.                                               *)
(***************************************************************************)
BASE_NIF == <<"5", "0", "1", "9", "6", "4", "8", "4", "3">>

E2E_Header ==
    [AuditFileVersion      |-> <<"1", ".", "0", "4">>,
     CompanyID             |-> <<"5", "0", "1", "9", "6", "4", "8", "4", "3">>,
     TaxRegistrationNumber |-> BASE_NIF,
     CompanyName           |-> <<"E", "m", "p", "r", "e", "s", "a">>,
     FiscalYear            |-> <<"2", "0", "2", "3">>,
     StartDate             |-> <<"2", "0", "2", "3", "-", "0", "1", "-", "0", "1">>,
     EndDate               |-> <<"2", "0", "2", "3", "-", "1", "2", "-", "3", "1">>,
     CurrencyCode          |-> <<"E", "U", "R">>,
     DateCreated           |-> <<"2", "0", "2", "4", "-", "0", "1", "-", "1", "5">>]

E2E_Entry ==
    [TaxType |-> IVA, TaxCountryRegion |-> PT, TaxCode |-> NOR,
     TaxPercentage |-> <<"2", "3", ".", "0">>]

E2E_Totals ==
    [NetTotal |-> <<"1", "0", "0", ".", "0", "0">>, TaxPayable |-> <<"2", "3", ".", "0", "0">>, GrossTotal |-> <<"1", "2", "3", ".", "0", "0">>]

FT1 == <<"F", "T", " ", "1">>

FT2 == <<"F", "T", " ", "2">>

FT3 == <<"F", "T", " ", "3">>

FT9 == <<"F", "T", " ", "9">>

CUST1 == <<"C", "1">>

CUST9 == <<"C", "9">>

PROD1 == <<"P", "1">>

PROD9 == <<"P", "9">>

ATCUD_OK == <<"A", "T", "2", "0", "2", "3", "X", "Y", "Z", "-", "1">>

E2E_Invoice ==
    [InvoiceNo      |-> FT1,
     InvoiceDate    |-> <<"2", "0", "2", "3", "-", "0", "5", "-", "0", "1">>,
     ATCUD          |-> ATCUD_OK,
     Hash           |-> <<"a", "b", "c">>,
     HashControl    |-> <<"1", "2", "3", "4", "5">>,
     CustomerID     |-> CUST1,
     DocumentTotals |-> <<E2E_Totals>>,
     Line           |-> <<[ProductCode |-> PROD1]>>]

E2E ==
    [Header           |-> <<E2E_Header>>,
     TaxTable         |-> <<[TaxTableEntry |-> <<E2E_Entry>>]>>,
     Customer         |-> <<[CustomerID |-> CUST1]>>,
     Product          |-> <<[ProductCode |-> PROD1]>>,
     Supplier         |-> <<>>,
     SalesInvoices    |-> <<[Invoice |-> <<E2E_Invoice>>]>>,
     Payments         |-> <<>>,
     PurchaseInvoices |-> <<>>]

\* the InvoiceNo given to the i-th of several invoices
InvNoOf(i) == IF i = 1 THEN FT1 ELSE IF i = 2 THEN FT2 ELSE FT3


(***************************************************************************)
(* SpecHeader: the Header varies (NIF, fiscal dates, missing fields).      *)
(***************************************************************************)
NifTail == 2

\* 9-digit texts: any first digit, the middle of BASE_NIF, any last digits
NifDigits ==
    {<<d>> \o SubSeq(BASE_NIF, 2, 9 - NifTail) \o t :
        d \in Digit, t \in [1..NifTail -> Digit]}

NifInputs ==
    NifDigits \cup
    {None, <<>>, <<" ", " ">>,
     SubSeq(BASE_NIF, 1, 8),
     BASE_NIF \o <<"3">>,
     <<" ">> \o BASE_NIF \o <<" ">>,
     SubSeq(BASE_NIF, 1, 4) \o <<" ">> \o SubSeq(BASE_NIF, 6, 9),
     SubSeq(BASE_NIF, 1, 8) \o <<"A">>,
     <<"P", "T">> \o BASE_NIF}

FiscalDates ==
    {<<<<"2", "0", "2", "3">>, <<"2", "0", "2", "3", "-", "0", "1", "-", "0", "1">>, <<"2", "0", "2", "3", "-", "1", "2", "-", "3", "1">>>>,
     <<<<"2", "0", "2", "3">>, <<"2", "0", "2", "3", "-", "1", "2", "-", "3", "1">>, <<"2", "0", "2", "3", "-", "0", "1", "-", "0", "1">>>>,
     <<<<"2", "0", "2", "2">>, <<"2", "0", "2", "3", "-", "0", "1", "-", "0", "1">>, <<"2", "0", "2", "3", "-", "1", "2", "-", "3", "1">>>>,
     <<<<"2", "0", "2", "2">>, <<"2", "0", "2", "3", "-", "1", "2", "-", "3", "1">>, <<"2", "0", "2", "3", "-", "0", "1", "-", "0", "1">>>>,
     <<<<"2", "0", "2", "4">>, <<"2", "0", "2", "4", "-", "0", "2", "-", "2", "9">>, <<"2", "0", "2", "4", "-", "0", "2", "-", "2", "9">>>>,
     <<<<"2", "0", "2", "3">>, <<"2", "0", "2", "3", "-", "0", "2", "-", "2", "9">>, <<"2", "0", "2", "3", "-", "1", "2", "-", "3", "1">>>>,
     <<<<"2", "0", "2", "3">>, <<"2", "0", "2", "3", "-", "1", "-", "0", "1">>, <<"2", "0", "2", "3", "-", "1", "2", "-", "3", "1">>>>,
     <<<<"2", "0", "x", "3">>, <<"2", "0", "2", "3", "-", "0", "1", "-", "0", "1">>, <<"2", "0", "2", "3", "-", "1", "2", "-", "3", "1">>>>,
     <<<<"2", "0", "2", "3">>, <<"2", "0", "2", "3", "-", "0", "1", "-", "0", "1">>, None>>,
     <<None, <<"2", "0", "2", "3", "-", "0", "1", "-", "0", "1">>, <<"2", "0", "2", "3", "-", "1", "2", "-", "3", "1">>>>}

HeaderDocs ==
    {[E2E EXCEPT !.Header[1].TaxRegistrationNumber = n] : n \in NifInputs}
    \cup
    {[E2E EXCEPT !.Header[1].FiscalYear = f[1],
                 !.Header[1].StartDate = f[2],
                 !.Header[1].EndDate = f[3]] : f \in FiscalDates}
    \cup
    {[E2E EXCEPT !.Header[1][obrigatorios[i]] = b] :
        i \in 1..Len(obrigatorios), b \in {None, <<" ">>}}
    \cup
    {[E2E EXCEPT !.Header = <<>>]}

InitHeader == \E d \in HeaderDocs : InitIndex(d)

SpecHeader == InitHeader /\ [][Next]_vars

\* the text of Header.TaxRegistrationNumber ("" when it is absent)
HeaderNifText ==
    IF xml_root.Header = <<>> \/ xml_root.Header[1].TaxRegistrationNumber = None
    THEN <<>> ELSE xml_root.Header[1].TaxRegistrationNumber

\* the published checksum rule: 9 decimal digits, first digit in
\* {1,2,3,5,6,8,9}, check digit (11 - weighted sum mod 11) mod 11 with 10 -> 0
NifFormula(s) ==
    /\ Len(s) = 9
    /\ \A i \in 1..9 : s[i] \in Digit
    /\ s[1] \in {"1", "2", "3", "5", "6", "8", "9"}
    /\ LET v(i) == DigitVal(s[i])
           w == 9 * v(1) + 8 * v(2) + 7 * v(3) + 6 * v(4)
                + 5 * v(5) + 4 * v(6) + 3 * v(7) + 2 * v(8)
           c == (11 - (w % 11)) % 11
       IN  (IF c = 10 THEN 0 ELSE c) = v(9)

NIF_MSG == <<"NIF invalido no Header.">>

\* C1: for every input text s, both _validar_nif_pt (fiscal.py and app.py)
\* return true exactly when s satisfies the published checksum rule, and the
\* NIF pass reports the Header NIF exactly when its stripped text fails it.
C1_NifChecksum ==
    /\ _validar_nif_pt(HeaderNifText) = NifFormula(HeaderNifText)
    /\ app_validar_nif_pt(HeaderNifText) = NifFormula(HeaderNifText)
    /\ "nif" \in ran /\ xml_root.Header # <<>> =>
          LET nif == _ftext(xml_root.Header[1].TaxRegistrationNumber)
          IN  (NIF_MSG \in Range(errors)) <=> (nif # None /\ ~NifFormula(nif))

\* a checksum-valid NIF whose computed check value is 10 has passed the NIF pass
C1_Witness ==
    /\ pc = "done"
    /\ "nif" \in ran
    /\ NifFormula(HeaderNifText)
    /\ NifTotal(HeaderNifText) % 11 = 1
    /\ NIF_MSG \notin Range(errors)


(***************************************************************************)
(* SpecTotals: the DocumentTotals of the sales invoices, or of the         *)
(* payments, vary.                                                         *)
(***************************************************************************)
MaxInvoices == 2

MaxPayments == 2

PAY1 == <<"R", "C", " ", "1">>

PAY2 == <<"R", "C", " ", "2">>

PAY3 == <<"R", "C", " ", "3">>

\* the PaymentRefNo given to the i-th of several payments
PayRefOf(i) == IF i = 1 THEN PAY1 ELSE IF i = 2 THEN PAY2 ELSE PAY3

\* a payment that passes every check of validar_payments on E2E
E2E_Payment ==
    [PaymentRefNo    |-> PAY1,
     TransactionDate |-> <<"2", "0", "2", "3", "-", "0", "6", "-", "0", "1">>,
     ATCUD           |-> ATCUD_OK,
     Hash            |-> None,
     HashControl     |-> None,
     DocumentTotals  |-> <<E2E_Totals>>,
     Line            |-> <<[OriginatingON |-> FT1]>>]

\* the non-empty sequences of at most n elements of S
SeqsUpTo(S, n) == UNION {[1..k -> S] : k \in 1..n}

\* (NetTotal, TaxPayable, GrossTotal) texts
TotalsTexts ==
    {<<<<"1", "0", "0", ".", "0", "0">>, <<"2", "3", ".", "0", "0">>, <<"1", "2", "3", ".", "0", "0">>>>,
     <<<<"1", "0", "0", ".", "0", "0">>, <<"2", "3", ".", "0", "0">>, <<"1", "2", "3", ".", "0", "1">>>>,
     <<<<"1", "0", "0", ".", "0", "0">>, <<"2", "3", ".", "0", "0">>, <<"1", "2", "2", ".", "9", "9">>>>,
     <<<<"1", "0", "0", ".", "0", "0">>, <<"2", "3", ".", "0", "0">>, <<"1", "2", "3", ".", "0", "1", "0", "1">>>>,
     <<<<"1", "0", "0", ".", "0", "0">>, <<"2", "3", ".", "0", "0">>, <<"1", "2", "3", ".", "0", "0", "9">>>>,
     <<<<"1", "0", "0", ".", "0", "0">>, <<"2", "3", ".", "0", "0">>, <<"1", "2", "4", ".", "0", "0">>>>,
     <<<<"0", ".", "0", "0">>, <<"0", ".", "0", "0">>, <<"0", ".", "0", "1">>>>,
     <<<<"0", ".", "0", "0">>, <<"0", ".", "0", "0">>, <<"0", ".", "0", "1", "0", "1">>>>,
     <<<<"0", ".", "0", "0">>, <<"0", ".", "0", "1">>, <<"0", ".", "0", "0">>>>,
     <<<<"0", ".", "1">>, <<"0", ".", "2">>, <<"0", ".", "3">>>>,
     <<<<"-", "1", "0", "0", ".", "0", "0">>, <<"-", "2", "3", ".", "0", "0">>, <<"-", "1", "2", "3", ".", "0", "0">>>>,
     <<<<"-", "0", ".", "0", "1">>, <<"0">>, <<"0", ".", "0", "0", "0", "1">>>>,
     <<<<"1", "0", "0", ".", "0", "0">>, <<"a", "b", "c">>, <<"1", "2", "3", ".", "0", "0">>>>,
     <<<<"1", "0", "0", ".", "0", "0">>, <<"2", "3", ".", "0", "0">>, None>>}

TotalsOfTexts(t) == [NetTotal |-> t[1], TaxPayable |-> t[2], GrossTotal |-> t[3]]

\* the sequence of invoices numbered in order, the i-th with totals ts[i]
TotalsInvoices(ts) ==
    [i \in 1..Len(ts) |->
        [E2E_Invoice EXCEPT !.InvoiceNo = InvNoOf(i),
                            !.DocumentTotals = <<TotalsOfTexts(ts[i])>>]]

TotalsPayments(ts) ==
    [i \in 1..Len(ts) |->
        [E2E_Payment EXCEPT !.PaymentRefNo = PayRefOf(i),
                            !.DocumentTotals = <<TotalsOfTexts(ts[i])>>]]

TotalsDocs ==
    {[E2E EXCEPT !.SalesInvoices[1].Invoice = TotalsInvoices(ts)] :
        ts \in SeqsUpTo(TotalsTexts, MaxInvoices)}
    \cup
    {[E2E EXCEPT !.Payments = <<[Payment |-> TotalsPayments(ts)]>>] :
        ts \in SeqsUpTo(TotalsTexts, MaxPayments)}

InitTotals == \E d \in TotalsDocs : InitIndex(d)

SpecTotals == InitTotals /\ [][Next]_vars

\* the sales invoices and the payments of the document
InvoicesOf(r) == IF r.SalesInvoices = <<>> THEN <<>> ELSE r.SalesInvoices[1].Invoice

PaymentsOf(r) == IF r.Payments = <<>> THEN <<>> ELSE r.Payments[1].Payment

\* a plain decimal text: an optional sign, digits, and at most four decimals
IsDecimal(s) ==
    /\ s # None
    /\ LET b == IF s # <<>> /\ s[1] = "-" THEN Tail(s) ELSE s
           n == SpanLen(b, Digit)
       IN  /\ n >= 1
           /\ \/ n = Len(b)
              \/ /\ b[n + 1] = "."
                 /\ Len(b) - n - 1 \in 1..4
                 /\ \A i \in (n + 2)..Len(b) : b[i] \in Digit

\* the number a plain decimal text denotes, in units of 0.0001
DecimalValue(s) ==
    LET neg == s[1] = "-"
        b == IF neg THEN Tail(s) ELSE s
        n == SpanLen(b, Digit)
        frac == SubSeq(b, n + 2, Len(b)) \o [i \in 1..(4 - (Len(b) - n - 1)) |-> "0"]
        whole == NatOfDigits(SubSeq(b, 1, n), 0)
        mag == whole * 10000 + (IF n = Len(b) THEN 0 ELSE NatOfDigits(SubSeq(frac, 1, 4), 0))
    IN  IF neg THEN 0 - mag ELSE mag

\* |net + tax - gross| <= 0.01 on the numbers the three texts denote
Within001(totals) ==
    LET d == DecimalValue(totals.NetTotal) + DecimalValue(totals.TaxPayable)
             - DecimalValue(totals.GrossTotal)
    IN  d <= 100 /\ 0 - d <= 100

AllDecimal(totals) ==
    IsDecimal(totals.NetTotal) /\ IsDecimal(totals.TaxPayable) /\ IsDecimal(totals.GrossTotal)

INV_INCOERENTE(no) == <<"Invoice {inv_no}: GrossTotal incoerente.", no>>

PAY_INCOERENTE(ref) == <<"Payment {ref}: GrossTotal incoerente.", ref>>

\* C2: once the totals check of the sales invoices (of the payments) has run,
\* an invoice (a payment) whose three totals are numbers has no
\* 'GrossTotal incoerente' message exactly when |net + tax - gross| <= 0.01.
C2_TotalsTolerance ==
    /\ "sales_invoices" \in ran =>
          \A i \in 1..Len(InvoicesOf(xml_root)) :
             LET inv == InvoicesOf(xml_root)[i]
             IN  AllDecimal(inv.DocumentTotals[1]) =>
                    (INV_INCOERENTE(inv.InvoiceNo) \notin Range(errors)
                       <=> Within001(inv.DocumentTotals[1]))
    /\ "payments" \in ran =>
          \A i \in 1..Len(PaymentsOf(xml_root)) :
             LET pay == PaymentsOf(xml_root)[i]
             IN  AllDecimal(pay.DocumentTotals[1]) =>
                    (PAY_INCOERENTE(pay.PaymentRefNo) \notin Range(errors)
                       <=> Within001(pay.DocumentTotals[1]))


(***************************************************************************)
(* SpecAtcud: InvoiceDate, ATCUD, Hash and HashControl of the sales        *)
(* invoices vary.  A variant is <<InvoiceDate, ATCUD, Hash, HashControl>>. *)
(***************************************************************************)
AtcudDates ==
    {<<"2", "0", "2", "3", "-", "0", "1", "-", "0", "1">>, <<"2", "0", "2", "2", "-", "1", "2", "-", "3", "1">>, <<"2", "0", "2", "3", "-", "0", "5", "-", "0", "1">>, <<"2", "0", "2", "4", "-", "0", "2", "-", "2", "9">>, <<"2", "0", "2", "3", "-", "1", "3", "-", "0", "1">>,
     <<" ">>, None}

AtcudTexts ==
    {ATCUD_OK, None, <<" ">>, <<"A", "B", "C", "-", "1">>, <<"A", "T", "2", "0", "2", "3", "X", "-", "1">>, <<"A", "T", "2", "0", "2", "3", "X", "Y", "-", "1", "2">>,
     <<"A", "T", "C", "U", "D", ":", " ", "A", "T", "2", "0", "2", "3", "X", "Y", "Z", "-", "1">>, <<"A", "T", "2", "0", "2", "3", "X", "Y", "Z", "-">>, <<"A", "T", "2", "0", "2", "3", "X", "Y", "Z", "-", "1", "a">>}

HashPairs ==
    {<<<<"a", "b", "c">>, <<"1", "2", "3", "4", "5">>>>, <<None, <<"1", "2", "3", "4", "5">>>>, <<<<" ">>, <<"1", "2", "3", "4", "5">>>>,
     <<<<"0">>, None>>, <<<<"0">>, <<"a", "b", "c">>>>, <<<<"a", "b", "c">>, None>>, <<<<"a", "b", "c">>, <<"1", ".", "5">>>>,
     <<<<"a", "b", "c">>, <<"1", ".">>>>, <<<<"a", "b", "c">>, <<"x", "1">>>>}

\* the variants a document with one invoice takes
AtcudVariants ==
    {<<d, a, <<"a", "b", "c">>, <<"1", "2", "3", "4", "5">>>> : d \in AtcudDates, a \in AtcudTexts}
    \cup
    {<<d, a, h[1], h[2]>> : d \in AtcudDates, a \in {ATCUD_OK, None}, h \in HashPairs}

\* the variants the invoices of a document with several take
AtcudSeveral ==
    {<<<<"2", "0", "2", "3", "-", "0", "5", "-", "0", "1">>, ATCUD_OK, <<"a", "b", "c">>, <<"1", "2", "3", "4", "5">>>>,
     <<<<"2", "0", "2", "3", "-", "0", "1", "-", "0", "1">>, None, <<"a", "b", "c">>, <<"1", "2", "3", "4", "5">>>>,
     <<<<"2", "0", "2", "2", "-", "1", "2", "-", "3", "1">>, None, <<"a", "b", "c">>, <<"1", "2", "3", "4", "5">>>>,
     <<None, ATCUD_OK, None, None>>,
     <<<<"2", "0", "2", "3", "-", "1", "3", "-", "0", "1">>, None, <<"a", "b", "c">>, <<"x", "1">>>>,
     <<<<"2", "0", "2", "3", "-", "0", "5", "-", "0", "1">>, ATCUD_OK, None, <<"1", "2", "3", "4", "5">>>>,
     <<<<"2", "0", "2", "3", "-", "0", "5", "-", "0", "1">>, <<"A", "B", "C", "-", "1">>, <<"a", "b", "c">>, None>>,
     <<<<"2", "0", "2", "2", "-", "1", "2", "-", "3", "1">>, ATCUD_OK, <<"0">>, None>>}

AtcudInvoices(vs) ==
    [i \in 1..Len(vs) |->
        [E2E_Invoice EXCEPT !.InvoiceNo = InvNoOf(i), !.InvoiceDate = vs[i][1],
                            !.ATCUD = vs[i][2], !.Hash = vs[i][3],
                            !.HashControl = vs[i][4]]]

AtcudDocs ==
    {[E2E EXCEPT !.SalesInvoices[1].Invoice = AtcudInvoices(<<v>>)] : v \in AtcudVariants}
    \cup
    {[E2E EXCEPT !.SalesInvoices[1].Invoice = AtcudInvoices(vs)] :
        vs \in SeqsUpTo(AtcudSeveral, MaxInvoices)}
    \cup
    {[E2E EXCEPT !.SalesInvoices[1].Invoice[1].InvoiceNo = None,
                 !.SalesInvoices[1].Invoice[1].ATCUD = None,
                 !.SalesInvoices[1].Invoice[1].Hash = None],
     [E2E EXCEPT !.SalesInvoices = <<>>]}

InitAtcud == \E d \in AtcudDocs : InitIndex(d)

SpecAtcud == InitAtcud /\ [][Next]_vars

\* a text absent or made of white space only
Blank(x) == x = None \/ \A i \in 1..Len(x) : x[i] \in Space

\* the InvoiceNo a message names an invoice by
NameOf(inv) == IF Blank(inv.InvoiceNo) THEN SEM_INVOICE_NO ELSE Strip(inv.InvoiceNo)

\* the text is a calendar date written YYYY-MM-DD
IsIsoDate(x) == ~Blank(x) /\ fromisoformat(Strip(x)) # Raise

\* the date is 2023-01-01 or later
From2023(x) == IsIsoDate(x) /\ fromisoformat(Strip(x)).y >= 2023

\* ^(?:ATCUD:\s*)?[A-Za-z0-9]{8,}-[0-9]+$ : s splits into an optional
\* "ATCUD:" and white space ending at a, a code up to b - 1, "-" at b, digits
AtcudGrammar(s) ==
    \E a \in 0..Len(s), b \in 1..Len(s) :
       /\ a = 0 \/ (a >= 6 /\ SubSeq(s, 1, 6) = ATCUD_PREFIX
                    /\ \A i \in 7..a : s[i] \in Space)
       /\ b - a - 1 >= 8
       /\ \A i \in (a + 1)..(b - 1) : s[i] \in AlNum
       /\ s[b] = "-"
       /\ b < Len(s)
       /\ \A i \in (b + 1)..Len(s) : s[i] \in Digit

\* digits, optionally followed by "." and digits
PlainNumber(s) ==
    \E n \in 1..Len(s) :
       /\ \A i \in 1..n : s[i] \in Digit
       /\ \/ n = Len(s)
          \/ /\ n + 1 < Len(s)
             /\ s[n + 1] = "."
             /\ \A i \in (n + 2)..Len(s) : s[i] \in Digit

ATCUD_MSG(kind, no) == <<"{kind} {no}: ATCUD invalido ou em falta.", kind, no>>

HASH_MSG(no) == <<"Invoice {inv_no}: Hash em falta.", no>>

HC_MSG(kind, no) == <<"{kind} {no}: HashControl invalido.", kind, no>>

\* C3: after validar_atcud_hash_sales_invoices, every sales invoice dated
\* 2023-01-01 or later whose ATCUD is absent or outside the grammar has an
\* ATCUD message naming it, and every sales invoice dated before 2023-01-01
\* without ATCUD has none.
C3_AtcudFrom2023 ==
    "atcud_hash" \in ran =>
       \A i \in 1..Len(InvoicesOf(xml_root)) :
          LET inv == InvoicesOf(xml_root)[i]
          IN  /\ From2023(inv.InvoiceDate)
                 /\ (Blank(inv.ATCUD) \/ ~AtcudGrammar(Strip(inv.ATCUD)))
                 => ATCUD_MSG("Invoice", NameOf(inv)) \in Range(errors)
              /\ IsIsoDate(inv.InvoiceDate) /\ ~From2023(inv.InvoiceDate)
                 /\ Blank(inv.ATCUD)
                 => ATCUD_MSG("Invoice", NameOf(inv)) \notin Range(errors)

\* one document holds an invoice of 2023-01-01 reported for its missing
\* ATCUD and an invoice of 2022-12-31 without ATCUD that is not
C3_Witness ==
    /\ pc = "done"
    /\ \E i, j \in 1..Len(InvoicesOf(xml_root)) :
          LET a == InvoicesOf(xml_root)[i]
              b == InvoicesOf(xml_root)[j]
          IN  /\ a.InvoiceDate = <<"2", "0", "2", "3", "-", "0", "1", "-", "0", "1">> /\ Blank(a.ATCUD)
              /\ ATCUD_MSG("Invoice", NameOf(a)) \in Range(errors)
              /\ b.InvoiceDate = <<"2", "0", "2", "2", "-", "1", "2", "-", "3", "1">> /\ Blank(b.ATCUD)
              /\ ATCUD_MSG("Invoice", NameOf(b)) \notin Range(errors)


\* the Hash of the invoice is blank
HashMissing(inv) == Blank(inv.Hash)

\* the Hash is present and not "0", the HashControl absent or not a number
HashControlBad(inv) ==
    /\ ~Blank(inv.Hash)
    /\ Strip(inv.Hash) # <<"0">>
    /\ Blank(inv.HashControl) \/ ~PlainNumber(Strip(inv.HashControl))

\* C8 as stated: after validar_atcud_hash_sales_invoices, every sales
\* invoice, whatever its InvoiceDate or ATCUD, has a Hash message when its
\* Hash is blank and a HashControl message when its Hash is not "0" and its
\* HashControl is absent or not a plain number.
C8_HashAnyDate ==
    "atcud_hash" \in ran =>
       \A i \in 1..Len(InvoicesOf(xml_root)) :
          LET inv == InvoicesOf(xml_root)[i]
          IN  /\ HashMissing(inv) => HASH_MSG(NameOf(inv)) \in Range(errors)
              /\ HashControlBad(inv)
                 => HC_MSG("Invoice", NameOf(inv)) \in Range(errors)

\* C8 amended: the Hash and HashControl messages are owed to the sales
\* invoices whose InvoiceDate is present and parses, whatever their ATCUD;
\* an invoice whose InvoiceDate is missing or does not parse gets neither.
C8_HashDated ==
    "atcud_hash" \in ran =>
       \A i \in 1..Len(InvoicesOf(xml_root)) :
          LET inv == InvoicesOf(xml_root)[i]
          IN  IF IsIsoDate(inv.InvoiceDate)
              THEN /\ HashMissing(inv) => HASH_MSG(NameOf(inv)) \in Range(errors)
                   /\ HashControlBad(inv)
                      => HC_MSG("Invoice", NameOf(inv)) \in Range(errors)
              ELSE /\ HASH_MSG(NameOf(inv)) \notin Range(errors)
                   /\ HC_MSG("Invoice", NameOf(inv)) \notin Range(errors)

\* one document holds a dated invoice reported for its missing Hash and a
\* dated invoice reported for its HashControl
C8_Witness ==
    /\ pc = "done"
    /\ \E i, j \in 1..Len(InvoicesOf(xml_root)) :
          LET a == InvoicesOf(xml_root)[i]
              b == InvoicesOf(xml_root)[j]
          IN  /\ IsIsoDate(a.InvoiceDate) /\ HashMissing(a)
              /\ HASH_MSG(NameOf(a)) \in Range(errors)
              /\ IsIsoDate(b.InvoiceDate) /\ HashControlBad(b)
              /\ HC_MSG("Invoice", NameOf(b)) \in Range(errors)


(***************************************************************************)
(* SpecTax: the TaxTable varies.  An entry is                              *)
(* <<TaxType, TaxCountryRegion, TaxCode, TaxPercentage>>.                  *)
(***************************************************************************)
MaxEntries == 2

\* the entries a table with one entry takes
TaxSingles ==
    {<<IVA, PT, c, p>> :
        c \in {NOR, <<"I", "N", "T">>, <<"R", "E", "D">>},
        p \in {<<"2", "3", ".", "0">>, <<"1", "3", ".", "0">>, <<"6", ".", "0">>, <<"2", "3">>, <<"2", "3", ".", "0", "0", "1">>, <<"2", "2", ".", "9", "9", "9">>, <<"1", "3", ".", "0", "0", "1">>,
               <<"1", "2", ".", "9", "9", "9">>, <<"6", ".", "0", "0", "1">>, <<"5", ".", "9", "9", "9">>, <<"2", "3", ".", "0", "0", "0", "4">>, <<"2", "3", ".", "0", "0", "2">>}}
    \cup
    {<<IVA, PT, c, p>> :
        c \in {<<"I", "S", "E">>, <<"O", "U", "T">>, <<"X", "X", "X">>, None},
        p \in {<<"0", ".", "0">>, <<"0">>, <<"-", "0", ".", "0">>, <<"0", ".", "0", "0", "1">>, <<"0", ".", "0", "0", "2">>, <<"2", "3", ".", "0">>, <<"a", "b", "c">>, None}}
    \cup
    {<<<<"I", "S">>, PT, <<"X">>, <<"a", "b", "c">>>>, <<IVA, <<"E", "S">>, NOR, <<"2", "1", ".", "0">>>>,
     <<IVA, <<"P", "T", "-", "A", "C">>, NOR, <<"1", "6", ".", "0">>>>, <<<<"i", "v", "a">>, PT, NOR, <<"5">>>>,
     <<None, PT, NOR, <<"2", "3", ".", "0">>>>, <<IVA, None, NOR, <<"2", "3", ".", "0">>>>,
     <<<<"I", "S">>, PT, <<"X">>, None>>, <<<<"I", "S">>, <<"E", "S">>, <<" ">>, <<"4", ".", "0">>>>}

\* the entries a table with several takes
TaxSeveral ==
    {<<IVA, PT, NOR, <<"2", "3", ".", "0">>>>, <<IVA, PT, NOR, <<"2", "3", ".", "0", "0">>>>,
     <<IVA, PT, NOR, <<"2", "3", ".", "0", "0", "0", "4">>>>, <<IVA, PT, NOR, <<"2", "2">>>>,
     <<IVA, PT, NOR, <<"a", "b", "c">>>>, <<IVA, PT, <<"I", "N", "T">>, <<"1", "3", ".", "0">>>>,
     <<IVA, PT, <<"I", "S", "E">>, <<"0", ".", "0">>>>, <<IVA, PT, <<"I", "S", "E">>, <<"-", "0", ".", "0">>>>,
     <<IVA, PT, <<"X", "X", "X">>, <<"2", "3", ".", "0">>>>, <<IVA, <<"E", "S">>, NOR, <<"2", "1", ".", "0">>>>,
     <<<<"I", "S">>, PT, <<"X">>, None>>}

TaxEntries(es) ==
    [i \in 1..Len(es) |->
        [TaxType |-> es[i][1], TaxCountryRegion |-> es[i][2],
         TaxCode |-> es[i][3], TaxPercentage |-> es[i][4]]]

TaxDocs ==
    {[E2E EXCEPT !.TaxTable[1].TaxTableEntry = TaxEntries(<<e>>)] : e \in TaxSingles}
    \cup
    {[E2E EXCEPT !.TaxTable[1].TaxTableEntry = TaxEntries(es)] :
        es \in SeqsUpTo(TaxSeveral, MaxEntries)}
    \cup
    {[E2E EXCEPT !.TaxTable = <<>>],
     [E2E EXCEPT !.TaxTable[1].TaxTableEntry = <<>>]}

InitTax == \E d \in TaxDocs : InitIndex(d)

SpecTax == InitTax /\ [][Next]_vars

\* the entries of the TaxTable of the document
EntriesOf(r) == IF r.TaxTable = <<>> THEN <<>> ELSE r.TaxTable[1].TaxTableEntry

TAX_TEMPLATES ==
    {"TaxTable em falta.", "TaxTable sem TaxTableEntry.", "TaxTableEntry incompleto.",
     "IVA {code}: TaxPercentage invalido.", "IVA TaxCode desconhecido: {code}.",
     "IVA {code}: duplicado com percentagens diferentes."}

\* the messages of validar_tax_table in the accumulator
TaxErrors == {m \in Range(errors) : m[1] \in TAX_TEMPLATES}

\* the entry has TaxType IVA and TaxCountryRegion PT
IsIvaPt(e) ==
    /\ ~Blank(e.TaxType) /\ Strip(e.TaxType) = IVA
    /\ ~Blank(e.TaxCountryRegion) /\ Strip(e.TaxCountryRegion) = PT

\* the reference percentages, in units of 0.0001
ReferenceValue(c) ==
    IF c = NOR THEN 230000
    ELSE IF c = <<"I", "N", "T">> THEN 130000
    ELSE IF c = <<"R", "E", "D">> THEN 60000
    ELSE 0

ReferenceCodes == {NOR, <<"I", "N", "T">>, <<"R", "E", "D">>, <<"I", "S", "E">>, <<"O", "U", "T">>}

\* the percentage of the entry is the reference of its code within 0.001
MatchesReference(e) ==
    /\ ~Blank(e.TaxCode) /\ Strip(e.TaxCode) \in ReferenceCodes
    /\ ~Blank(e.TaxPercentage) /\ IsDecimal(Strip(e.TaxPercentage))
    /\ LET d == DecimalValue(Strip(e.TaxPercentage)) - ReferenceValue(Strip(e.TaxCode))
       IN  d <= 10 /\ 0 - d <= 10

\* two IVA/PT entries of one code with different percentages
DiffersTwice(es) ==
    \E i, j \in 1..Len(es) :
       /\ i < j /\ IsIvaPt(es[i]) /\ IsIvaPt(es[j])
       /\ ~Blank(es[i].TaxCode) /\ ~Blank(es[j].TaxCode)
       /\ Strip(es[i].TaxCode) = Strip(es[j].TaxCode)
       /\ ~Blank(es[i].TaxPercentage) /\ IsDecimal(Strip(es[i].TaxPercentage))
       /\ ~Blank(es[j].TaxPercentage) /\ IsDecimal(Strip(es[j].TaxPercentage))
       /\ DecimalValue(Strip(es[i].TaxPercentage)) # DecimalValue(Strip(es[j].TaxPercentage))

EntryComplete(e) ==
    ~Blank(e.TaxType) /\ ~Blank(e.TaxCountryRegion) /\ ~Blank(e.TaxCode)
    /\ ~Blank(e.TaxPercentage)

\* the percentage parses, the code has a reference, and
\* abs(percentage - reference) > 0.001 is false in binary64
MatchesReferenceFloat(e) ==
    /\ float(Strip(e.TaxPercentage)) # Raise
    /\ Strip(e.TaxCode) \in ReferenceCodes
    /\ ~AbsDiffGt(float(Strip(e.TaxPercentage)), float(IVA_REGRAS[Strip(e.TaxCode)]),
                  <<"0", ".", "0", "0", "1">>)

\* two IVA/PT entries of one code whose percentages are unequal floats
DiffersTwiceFloat(es) ==
    \E i, j \in 1..Len(es) :
       /\ i < j /\ IsIvaPt(es[i]) /\ IsIvaPt(es[j])
       /\ Strip(es[i].TaxCode) = Strip(es[j].TaxCode)
       /\ ~FEq(float(Strip(es[i].TaxPercentage)), float(Strip(es[j].TaxPercentage)))

NinePasses ==
    <<"header", "datas", "nif", "tax_table", "sales_invoices", "atcud_hash",
      "customers", "products", "payments">>

\* C5: in index(), the passes that have run are the first passes of the
\* fixed order header .. payments, each once; the verdict is reached only
\* after all nine; suppliers and purchase invoices never run; and the
\* document is reported valid exactly when the accumulator is empty after the
\* ninth pass.
C5_NinePassesInOrder ==
    /\ Len(trace) <= 9 /\ trace = SubSeq(NinePasses, 1, Len(trace))
    /\ ran = Range(trace)
    /\ \A i \in 1..9 : pc = NinePasses[i] => Len(trace) = i - 1
    /\ pc = "decide" => trace = NinePasses
    /\ pc = "done" => trace = <<>> \/ trace = NinePasses
    /\ ran \cap {"suppliers", "purchase_invoices"} = {}
    /\ pc = "done" /\ trace = NinePasses => (valid <=> errors = <<>>)
    /\ valid => pc = "done" /\ trace = NinePasses /\ errors = <<>>

\* a document whose first pass left a message went through all nine passes
\* and is reported invalid
C5_Witness ==
    /\ pc = "done"
    /\ trace = NinePasses
    /\ errors # <<>>
    /\ errors[1][1] \in {"Header em falta.", "Header.{campo} e obrigatorio."}
    /\ ~valid
    /\ status = 422

\* the document is the end-to-end document of the claim: a complete Header
\* with consistent dates and a checksum-valid NIF, one entry IVA/PT/NOR/23.0,
\* one numbered invoice 100.00 + 23.00 = 123.00 of 2023-05-01 with ATCUD
\* AT2023XYZ-1, Hash abc, HashControl 12345, a known customer, one line of a
\* known product, no Payments
IsEndToEnd(r) ==
    /\ r.Header # <<>>
    /\ \A i \in 1..Len(obrigatorios) : ~Blank(r.Header[1][obrigatorios[i]])
    /\ NifFormula(Strip(r.Header[1].TaxRegistrationNumber))
    /\ IsIsoDate(r.Header[1].StartDate) /\ IsIsoDate(r.Header[1].EndDate)
    /\ ~DateGt(fromisoformat(Strip(r.Header[1].StartDate)),
               fromisoformat(Strip(r.Header[1].EndDate)))
    /\ AllIn(Strip(r.Header[1].FiscalYear), Digit)
    /\ NatOfDigits(Strip(r.Header[1].FiscalYear), 0)
          = fromisoformat(Strip(r.Header[1].StartDate)).y
    /\ EntriesOf(r) = <<[TaxType |-> IVA, TaxCountryRegion |-> PT, TaxCode |-> NOR,
                         TaxPercentage |-> <<"2", "3", ".", "0">>]>>
    /\ Len(InvoicesOf(r)) = 1
    /\ LET inv == InvoicesOf(r)[1]
       IN  /\ ~Blank(inv.InvoiceNo)
           /\ inv.DocumentTotals = <<[NetTotal |-> <<"1", "0", "0", ".", "0", "0">>, TaxPayable |-> <<"2", "3", ".", "0", "0">>,
                                      GrossTotal |-> <<"1", "2", "3", ".", "0", "0">>]>>
           /\ inv.InvoiceDate = <<"2", "0", "2", "3", "-", "0", "5", "-", "0", "1">>
           /\ inv.ATCUD = <<"A", "T", "2", "0", "2", "3", "X", "Y", "Z", "-", "1">>
           /\ inv.Hash = <<"a", "b", "c">>
           /\ inv.HashControl = <<"1", "2", "3", "4", "5">>
           /\ \E c \in 1..Len(r.Customer) : r.Customer[c].CustomerID = inv.CustomerID
           /\ Len(inv.Line) = 1
           /\ \E q \in 1..Len(r.Product) : r.Product[q].ProductCode = inv.Line[1].ProductCode
    /\ r.Payments = <<>>

\* C7: on the end-to-end document every one of passes 1 to 9 leaves the
\* accumulator empty, and the document is reported valid.
C7_EndToEnd ==
    IsEndToEnd(xml_root) /\ ran # {} =>
       /\ errors = <<>>
       /\ pc = "done" => valid /\ status = 200

\* the end-to-end document went through the nine passes and is valid
C7_Witness ==
    /\ pc = "done"
    /\ IsEndToEnd(xml_root)
    /\ trace = NinePasses
    /\ errors = <<>>
    /\ valid


(***************************************************************************)
(* SpecPayments: the payments vary.  A variant is                          *)
(* <<TransactionDate, DocumentTotals, ATCUD, <<Hash, HashControl>>,        *)
(*   the OriginatingON of its lines>>.                                     *)
(***************************************************************************)
PayDates == {<<"2", "0", "2", "3", "-", "0", "6", "-", "0", "1">>, <<"2", "0", "2", "3", "-", "0", "1", "-", "0", "1">>, <<"2", "0", "2", "2", "-", "1", "2", "-", "3", "1">>, <<"2", "0", "2", "3", "-", "1", "3", "-", "0", "1">>, None}

PayTotals ==
    {<<E2E_Totals>>,
     <<TotalsOfTexts(<<<<"1", "0", "0", ".", "0", "0">>, <<"2", "3", ".", "0", "0">>, <<"1", "2", "4", ".", "0", "0">>>>)>>,
     <<TotalsOfTexts(<<<<"1", "0", "0", ".", "0", "0">>, <<"a", "b", "c">>, <<"1", "2", "3", ".", "0", "0">>>>)>>,
     <<>>}

PayAtcuds == {ATCUD_OK, None, <<"A", "B", "C", "-", "1">>}

PayHashes == {<<None, None>>, <<<<"a", "b", "c">>, None>>, <<<<"a", "b", "c">>, <<"1", "2", "3", "4", "5">>>>}

PayLines == {<<>>, <<FT1>>, <<FT9>>, <<None>>, <<FT1, FT9>>, <<FT9, None>>}

\* the variants a document with one payment takes
PayVariants ==
    {<<d, t, a, h, l>> :
        d \in PayDates, t \in PayTotals, a \in PayAtcuds, h \in PayHashes, l \in PayLines}

\* the variants the payments of a document with several take
PaySeveral ==
    {<<<<"2", "0", "2", "3", "-", "0", "6", "-", "0", "1">>, <<E2E_Totals>>, ATCUD_OK, <<None, None>>, <<FT1>>>>,
     <<<<"2", "0", "2", "3", "-", "0", "6", "-", "0", "1">>, <<TotalsOfTexts(<<<<"1", "0", "0", ".", "0", "0">>, <<"2", "3", ".", "0", "0">>, <<"1", "2", "4", ".", "0", "0">>>>)>>, None,
       <<None, None>>, <<FT9>>>>,
     <<<<"2", "0", "2", "3", "-", "0", "6", "-", "0", "1">>, <<TotalsOfTexts(<<<<"1", "0", "0", ".", "0", "0">>, <<"a", "b", "c">>, <<"1", "2", "3", ".", "0", "0">>>>)>>, None,
       <<None, None>>, <<FT9>>>>,
     <<None, <<E2E_Totals>>, None, <<<<"a", "b", "c">>, None>>, <<FT9>>>>,
     <<<<"2", "0", "2", "3", "-", "1", "3", "-", "0", "1">>, <<E2E_Totals>>, None, <<None, None>>, <<None>>>>,
     <<<<"2", "0", "2", "2", "-", "1", "2", "-", "3", "1">>, <<E2E_Totals>>, None, <<<<"a", "b", "c">>, <<"1", ".">>>>, <<FT1, FT9>>>>}

PayElements(vs) ==
    [i \in 1..Len(vs) |->
        [PaymentRefNo    |-> PayRefOf(i),
         TransactionDate |-> vs[i][1],
         DocumentTotals  |-> vs[i][2],
         ATCUD           |-> vs[i][3],
         Hash            |-> vs[i][4][1],
         HashControl     |-> vs[i][4][2],
         Line            |-> [k \in 1..Len(vs[i][5]) |-> [OriginatingON |-> vs[i][5][k]]]]]

PaymentDocs ==
    {[E2E EXCEPT !.Payments = <<[Payment |-> PayElements(<<v>>)]>>] : v \in PayVariants}
    \cup
    {[E2E EXCEPT !.Payments = <<[Payment |-> PayElements(vs)]>>] :
        vs \in SeqsUpTo(PaySeveral, MaxPayments)}
    \cup
    {E2E,
     [E2E EXCEPT !.Payments = <<[Payment |-> <<>>]>>],
     [E2E EXCEPT !.Payments =
         <<[Payment |-> <<[E2E_Payment EXCEPT !.PaymentRefNo = None,
                                            !.ATCUD = None,
                                            !.Line = <<[OriginatingON |-> FT9]>>]>>]>>]}

InitPayments == \E d \in PaymentDocs : InitIndex(d)

SpecPayments == InitPayments /\ [][Next]_vars

\* the PaymentRefNo a message names a payment by
PayNameOf(pay) ==
    IF Blank(pay.PaymentRefNo) THEN SEM_PAYMENT_REF ELSE Strip(pay.PaymentRefNo)

\* the InvoiceNo of the sales invoices of the document
KnownInvoiceNos(r) ==
    {Strip(InvoicesOf(r)[i].InvoiceNo) :
        i \in {k \in 1..Len(InvoicesOf(r)) : ~Blank(InvoicesOf(r)[k].InvoiceNo)}}

\* the lines of the payment whose OriginatingON is blank or names no invoice
BadLines(pay, r) ==
    {k \in 1..Len(pay.Line) :
        \/ Blank(pay.Line[k].OriginatingON)
        \/ Strip(pay.Line[k].OriginatingON) \notin KnownInvoiceNos(r)}

\* how many reference messages the accumulator holds for the payment
RefMessages(ref) ==
    Cardinality({k \in 1..Len(errors) :
        /\ errors[k][1] = "Payment {ref}: referencia a Invoice inexistente ({src})."
        /\ errors[k][2] = ref})

\* the payment is dated 2023-01-01 or later, its ATCUD blank or malformed
PayAtcudBad(pay) ==
    /\ From2023(pay.TransactionDate)
    /\ Blank(pay.ATCUD) \/ ~AtcudGrammar(Strip(pay.ATCUD))

\* C9 as stated: after validar_payments, every payment has one reference
\* message per line that names no sales invoice and, when dated 2023-01-01 or
\* later with a blank or malformed ATCUD, an ATCUD message, whatever the
\* outcome of its totals check.
C9_PaymentChecksAlways ==
    "payments" \in ran =>
       \A i \in 1..Len(PaymentsOf(xml_root)) :
          LET pay == PaymentsOf(xml_root)[i]
          IN  /\ RefMessages(PayNameOf(pay)) = Cardinality(BadLines(pay, xml_root))
              /\ PayAtcudBad(pay) => ATCUD_MSG("Payment", PayNameOf(pay)) \in Range(errors)

\* the text is present and float() parses it
IsNumber(x) == ~Blank(x) /\ float(Strip(x)) # Raise

\* the payment has a TransactionDate that parses and DocumentTotals whose
\* three totals parse
PayChecked(pay) ==
    /\ IsIsoDate(pay.TransactionDate)
    /\ pay.DocumentTotals # <<>>
    /\ IsNumber(pay.DocumentTotals[1].NetTotal)
    /\ IsNumber(pay.DocumentTotals[1].TaxPayable)
    /\ IsNumber(pay.DocumentTotals[1].GrossTotal)

\* C9 amended: the line and ATCUD checks are owed to the payments that have
\* a parseable TransactionDate and DocumentTotals with three parseable
\* totals, coherent or not; any other payment gets neither message.
C9_PaymentChecks ==
    "payments" \in ran =>
       \A i \in 1..Len(PaymentsOf(xml_root)) :
          LET pay == PaymentsOf(xml_root)[i]
          IN  IF PayChecked(pay)
              THEN /\ RefMessages(PayNameOf(pay)) = Cardinality(BadLines(pay, xml_root))
                   /\ PayAtcudBad(pay)
                      => ATCUD_MSG("Payment", PayNameOf(pay)) \in Range(errors)
              ELSE /\ RefMessages(PayNameOf(pay)) = 0
                   /\ ATCUD_MSG("Payment", PayNameOf(pay)) \notin Range(errors)

\* a payment with incoherent totals, no ATCUD and a line naming no invoice
\* is reported for all three
C9_Witness ==
    /\ pc = "done"
    /\ \E i \in 1..Len(PaymentsOf(xml_root)) :
          LET pay == PaymentsOf(xml_root)[i]
          IN  /\ PayChecked(pay)
              /\ PAY_INCOERENTE(PayNameOf(pay)) \in Range(errors)
              /\ PayAtcudBad(pay)
              /\ ATCUD_MSG("Payment", PayNameOf(pay)) \in Range(errors)
              /\ BadLines(pay, xml_root) # {}
              /\ RefMessages(PayNameOf(pay)) = Cardinality(BadLines(pay, xml_root))


(***************************************************************************)
(* SpecRefs: the CustomerID and the lines of the sales invoices, and the   *)
(* customers and products of MasterFiles, vary.  A variant is              *)
(* <<CustomerID, the ProductCode of its lines>>.                           *)
(***************************************************************************)
RefCustomers == {CUST1, CUST9, None, <<" ">>}

RefLines ==
    {<<>>, <<PROD1>>, <<PROD9>>, <<None>>, <<PROD1, PROD9>>, <<PROD9, PROD9>>,
     <<PROD9, None>>}

MasterCustomers == {<<CUST1>>, <<>>, <<CUST1, CUST9>>, <<None>>}

MasterProducts == {<<PROD1>>, <<>>, <<PROD1, PROD9>>}

\* the variants the invoices of a document with several take
RefSeveral ==
    {<<CUST1, <<PROD1>>>>, <<CUST9, <<PROD9, PROD9>>>>, <<None, <<None>>>>,
     <<CUST9, <<PROD1>>>>, <<CUST1, <<PROD9>>>>}

RefInvoices(vs) ==
    [i \in 1..Len(vs) |->
        [E2E_Invoice EXCEPT
            !.InvoiceNo = InvNoOf(i),
            !.CustomerID = vs[i][1],
            !.Line = [k \in 1..Len(vs[i][2]) |-> [ProductCode |-> vs[i][2][k]]]]]

RefDoc(vs, cs, ps) ==
    [E2E EXCEPT !.SalesInvoices[1].Invoice = RefInvoices(vs),
                !.Customer = [k \in 1..Len(cs) |-> [CustomerID |-> cs[k]]],
                !.Product = [k \in 1..Len(ps) |-> [ProductCode |-> ps[k]]]]

RefDocs ==
    {RefDoc(<<<<c, l>>>>, cs, ps) :
        c \in RefCustomers, l \in RefLines, cs \in MasterCustomers, ps \in MasterProducts}
    \cup
    {RefDoc(vs, m[1], m[2]) :
        vs \in SeqsUpTo(RefSeveral, MaxInvoices),
        m \in {<<<<CUST1>>, <<PROD1>>>>, <<<<>>, <<>>>>}}

InitRefs == \E d \in RefDocs : InitIndex(d)

SpecRefs == InitRefs /\ [][Next]_vars

\* the CustomerID of the customers, the ProductCode of the products
MasterCustomerIds(r) ==
    {Strip(r.Customer[k].CustomerID) :
        k \in {j \in 1..Len(r.Customer) : ~Blank(r.Customer[j].CustomerID)}}

MasterProductCodes(r) ==
    {Strip(r.Product[k].ProductCode) :
        k \in {j \in 1..Len(r.Product) : ~Blank(r.Product[j].ProductCode)}}

\* the invoice has a CustomerID that is no customer of MasterFiles
UnknownCustomer(inv, r) ==
    ~Blank(inv.CustomerID) /\ Strip(inv.CustomerID) \notin MasterCustomerIds(r)

\* the lines of the invoice whose ProductCode is blank or no product
UnknownLines(inv, r) ==
    {k \in 1..Len(inv.Line) :
        \/ Blank(inv.Line[k].ProductCode)
        \/ Strip(inv.Line[k].ProductCode) \notin MasterProductCodes(r)}

CUST_TEMPLATE == "Invoice {inv_no}: CustomerID {cid} nao existe."

PROD_TEMPLATE == "Invoice {inv_no}: ProductCode invalido (nao existe em MasterFiles)."

\* how many messages of the template the accumulator holds for the invoice
MessagesFor(template, no) ==
    Cardinality({k \in 1..Len(errors) : errors[k][1] = template /\ errors[k][2] = no})

\* how many messages of the template the accumulator holds
MessagesOf(template) ==
    Cardinality({k \in 1..Len(errors) : errors[k][1] = template})

\* the invoices of the document, as positions
InvoiceIndexes == 1..Len(InvoicesOf(xml_root))

\* validar_customers left one message for each invoice of an unknown
\* customer and nothing else
CustomersPerInvoice ==
    "customers" \in ran =>
       /\ \A i \in InvoiceIndexes :
             MessagesFor(CUST_TEMPLATE, NameOf(InvoicesOf(xml_root)[i]))
                = IF UnknownCustomer(InvoicesOf(xml_root)[i], xml_root) THEN 1 ELSE 0
       /\ MessagesOf(CUST_TEMPLATE)
             = Cardinality({i \in InvoiceIndexes :
                              UnknownCustomer(InvoicesOf(xml_root)[i], xml_root)})
       /\ "products" \notin ran => Len(errors) = MessagesOf(CUST_TEMPLATE)

RECURSIVE SumOver(_, _)
\* the sum of f over the set S
SumOver(S, f) ==
    IF S = {} THEN 0
    ELSE LET x == CHOOSE y \in S : TRUE IN f[x] + SumOver(S \ {x}, f)

\* C10 as stated: validar_customers leaves one message per sales invoice of
\* an unknown customer, validar_products one message per sales invoice that
\* has a line of a blank or unknown product, and the two passes leave
\* nothing else.
C10_PerInvoice ==
    /\ CustomersPerInvoice
    /\ "products" \in ran =>
          /\ \A i \in InvoiceIndexes :
                MessagesFor(PROD_TEMPLATE, NameOf(InvoicesOf(xml_root)[i]))
                   = IF UnknownLines(InvoicesOf(xml_root)[i], xml_root) # {} THEN 1 ELSE 0
          /\ Len(errors) = MessagesOf(CUST_TEMPLATE) + MessagesOf(PROD_TEMPLATE)

\* C10 amended: validar_customers leaves one message per sales invoice of an
\* unknown customer; validar_products leaves one message per line of a blank
\* or unknown product, naming the invoice of the line; the two passes leave
\* nothing else.
C10_PerInvoicePerLine ==
    /\ CustomersPerInvoice
    /\ "products" \in ran =>
          /\ \A i \in InvoiceIndexes :
                MessagesFor(PROD_TEMPLATE, NameOf(InvoicesOf(xml_root)[i]))
                   = Cardinality(UnknownLines(InvoicesOf(xml_root)[i], xml_root))
          /\ MessagesOf(PROD_TEMPLATE)
                = SumOver(InvoiceIndexes,
                          [i \in InvoiceIndexes |->
                              Cardinality(UnknownLines(InvoicesOf(xml_root)[i], xml_root))])
          /\ Len(errors) = MessagesOf(CUST_TEMPLATE) + MessagesOf(PROD_TEMPLATE)

\* an invoice of an unknown customer with two lines of unknown products has
\* one customer message and two product messages
C10_Witness ==
    /\ pc = "done"
    /\ \E i \in InvoiceIndexes :
          LET inv == InvoicesOf(xml_root)[i]
          IN  /\ UnknownCustomer(inv, xml_root)
              /\ MessagesFor(CUST_TEMPLATE, NameOf(inv)) = 1
              /\ Cardinality(UnknownLines(inv, xml_root)) = 2
              /\ MessagesFor(PROD_TEMPLATE, NameOf(inv)) = 2


(***************************************************************************)
(* SpecAnyOrder: a caller of validators/fiscal.py runs the eleven passes   *)
(* on one document, each once, in any order, on an accumulator that may    *)
(* already hold messages.                                                  *)
(***************************************************************************)
E2E_Supplier ==
    [SupplierID     |-> <<"S", "1">>,
     CompanyName    |-> <<"F", "o", "r", "n", "e", "c", "e", "d", "o", "r">>,
     SupplierTaxID  |-> BASE_NIF,
     BillingAddress |-> <<[AddressDetail |-> <<"R", "u", "a", " ", "1">>, City |-> <<"L", "i", "s", "b", "o", "a">>, Country |-> PT]>>]

E2E_Purchase ==
    [InvoiceNo      |-> <<"F", "C", " ", "1">>,
     InvoiceDate    |-> <<"2", "0", "2", "3", "-", "0", "4", "-", "0", "1">>,
     SupplierID     |-> <<"S", "1">>,
     DocumentTotals |-> <<E2E_Totals>>,
     Line           |-> <<[ProductCode |-> PROD1,
                           Tax |-> <<[TaxType |-> IVA, TaxCountryRegion |-> PT,
                                      TaxCode |-> NOR]>>]>>]

\* the end-to-end document with a supplier and a purchase invoice
E2E_Extended ==
    [E2E EXCEPT !.Supplier = <<E2E_Supplier>>,
                !.PurchaseInvoices = <<[Invoice |-> <<E2E_Purchase>>]>>]

\* messages from the Header, the suppliers and the purchase invoices
DocHeaderPurchases ==
    [E2E_Extended EXCEPT
        !.Header[1].TaxRegistrationNumber = <<"1", "2", "3", "4", "5", "6", "7", "8", "0">>,
        !.Header[1].FiscalYear = <<"2", "0", "2", "2">>,
        !.Supplier = <<[E2E_Supplier EXCEPT !.SupplierTaxID = <<"1", "2", "3", "4", "5", "6", "7", "8", "0">>],
                       [E2E_Supplier EXCEPT !.BillingAddress = <<>>],
                       [E2E_Supplier EXCEPT !.SupplierID = None]>>,
        !.PurchaseInvoices[1].Invoice =
            <<[E2E_Purchase EXCEPT
                 !.SupplierID = <<"S", "9">>,
                 !.InvoiceDate = None,
                 !.DocumentTotals = <<TotalsOfTexts(<<<<"-", "1", "0", "0", ".", "0", "0">>, <<"2", "3", ".", "0", "0">>, <<"1", "2", "3", ".", "0", "0">>>>)>>,
                 !.Line = <<[ProductCode |-> PROD9,
                             Tax |-> <<[TaxType |-> IVA, TaxCountryRegion |-> PT,
                                        TaxCode |-> <<"X", "X", "X">>]>>],
                            [ProductCode |-> None, Tax |-> <<>>]>>]>>]

\* messages from the sales invoices and the payments
DocSales ==
    [E2E_Extended EXCEPT
        !.SalesInvoices[1].Invoice =
            <<[E2E_Invoice EXCEPT
                 !.DocumentTotals = <<TotalsOfTexts(<<<<"1", "0", "0", ".", "0", "0">>, <<"2", "3", ".", "0", "0">>, <<"1", "2", "4", ".", "0", "0">>>>)>>,
                 !.Line = <<[ProductCode |-> PROD9], [ProductCode |-> PROD9]>>]>>,
        !.Payments = <<[Payment |-> <<[E2E_Payment EXCEPT
                                         !.Line = <<[OriginatingON |-> FT9]>>]>>]>>]

AnyDocs == {E2E_Extended, DocHeaderPurchases, DocSales}

\* what the accumulator holds when the caller starts
PriorErrors == {<<>>, <<<<"Ficheiro XML invalido.">>, <<"Invoice incompleta.">>>>}

InitAny ==
    /\ xml_root \in AnyDocs
    /\ errors0 \in PriorErrors
    /\ errors = errors0
    /\ pc = "library"
    /\ trace = <<>>
    /\ ran = {}
    /\ valid = FALSE
    /\ status = 200
    /\ locals = NoLocals

\* the caller runs pass p, not yet run, leaving the accumulator after
RunAny(p, after) ==
    /\ pc = "library"
    /\ p \notin ran
    /\ errors' = after
    /\ ran' = ran \cup {p}
    /\ UNCHANGED <<locals, xml_root, errors0, pc, trace, valid, status>>

AnyHeader == RunAny("header", validar_header(xml_root, errors))

AnyDatas == RunAny("datas", validar_datas(xml_root, errors))

AnyNif == RunAny("nif", validar_nif(xml_root, errors))

AnyTaxTable == RunAny("tax_table", validar_tax_table(xml_root, errors))

AnySalesInvoices == RunAny("sales_invoices", validar_sales_invoices(xml_root, errors))

AnyAtcudHash == RunAny("atcud_hash", validar_atcud_hash_sales_invoices(xml_root, errors))

AnyCustomers == RunAny("customers", validar_customers(xml_root, errors))

AnyProducts == RunAny("products", validar_products(xml_root, errors))

AnyPayments == RunAny("payments", validar_payments(xml_root, errors))

AnySuppliers == RunAny("suppliers", validar_suppliers(xml_root, errors))

AnyPurchaseInvoices ==
    RunAny("purchase_invoices", validar_purchase_invoices(xml_root, errors))

NextAny ==
    \/ AnyHeader
    \/ AnyDatas
    \/ AnyNif
    \/ AnyTaxTable
    \/ AnySalesInvoices
    \/ AnyAtcudHash
    \/ AnyCustomers
    \/ AnyProducts
    \/ AnyPayments
    \/ AnySuppliers
    \/ AnyPurchaseInvoices

SpecAnyOrder == InitAny /\ [][NextAny]_vars


\* the multiset of the messages of a sequence
RECURSIVE BagOfSeq(_)
BagOfSeq(q) == IF q = <<>> THEN EmptyBag ELSE SetToBag({Head(q)}) (+) BagOfSeq(Tail(q))

AllPasses == Range(PASSES) \cup Range(EXTENDED)

\* what pass p leaves of the accumulator acc
PassOn(p, acc) ==
    CASE p = "header" -> validar_header(xml_root, acc)
      [] p = "datas" -> validar_datas(xml_root, acc)
      [] p = "nif" -> validar_nif(xml_root, acc)
      [] p = "tax_table" -> validar_tax_table(xml_root, acc)
      [] p = "sales_invoices" -> validar_sales_invoices(xml_root, acc)
      [] p = "atcud_hash" -> validar_atcud_hash_sales_invoices(xml_root, acc)
      [] p = "customers" -> validar_customers(xml_root, acc)
      [] p = "products" -> validar_products(xml_root, acc)
      [] p = "payments" -> validar_payments(xml_root, acc)
      [] p = "suppliers" -> validar_suppliers(xml_root, acc)
      [] p = "purchase_invoices" -> validar_purchase_invoices(xml_root, acc)

\* the messages of the passes of S, each run on an empty accumulator
RECURSIVE MessagesOfPasses(_)
MessagesOfPasses(S) ==
    IF S = {} THEN EmptyBag
    ELSE LET p == CHOOSE q \in S : TRUE
         IN  BagOfSeq(PassOn(p, <<>>)) (+) MessagesOfPasses(S \ {p})

\* C6: whatever the accumulator holds, a pass leaves it as it was followed
\* by the messages the pass gives on an empty accumulator; so the accumulator
\* always starts with what it held at the start, and after the eleven passes
\* in any order it holds, as a multiset, what it held at the start and the
\* messages of the eleven passes.
C6_AppendOnly ==
    /\ \A p \in AllPasses \ ran : PassOn(p, errors) = errors \o PassOn(p, <<>>)
    /\ SubSeq(errors, 1, Len(errors0)) = errors0
    /\ ran = AllPasses =>
          BagOfSeq(errors) = BagOfSeq(errors0) (+) MessagesOfPasses(AllPasses)

\* the eleven passes ran on an accumulator that held messages, in an order
\* that left the messages of the header after those of the purchase invoices
C6_Witness ==
    /\ ran = AllPasses
    /\ errors0 # <<>>
    /\ \E i, j \in 1..Len(errors) :
          /\ i < j
          /\ errors[i][1] = "PurchaseInvoice {inv_no}: totais negativos."
          /\ errors[j][1] = "NIF invalido no Header."


(***************************************************************************)
(* SpecMoney: _parse_money run on its own, on one text.                    *)
(***************************************************************************)
MaxMoneyLen == 3

MoneyAlphabet == {"1", ".", ",", " ", "a"}

MoneyTexts ==
    SeqsUpTo(MoneyAlphabet, MaxMoneyLen) \cup
    {None, <<>>,
     Chars("1.234,56"), Chars("1234.56"), Chars("1234,56"), Chars("abc"),
     Chars("1.234.567,89"), Chars("1,234.56"), Chars("1.2.3"), Chars("1,2,3"),
     Chars(" 12,50 ") \o <<EURO>>, <<EURO>> \o Chars("12,50"), Chars("12,50 EUR"),
     Chars("EUR"), <<EURO>>, Chars("12,50 eur"), Chars("$12,50"), Chars("1 234,56"),
     Chars("-5,00"), Chars("+5,00"), Chars("1EUR2"), Chars("12.50.EUR"),
     Chars("nan"), Chars("NaN"), Chars("inf"), Chars("-inf"), Chars("Infinity"),
     Chars("in f"), Chars("nEURan"), Chars("--1"), Chars("0,00"), Chars("123,00")}

\* the call _parse_money(s) is about to run
InitMoney ==
    /\ locals \in {[s |-> t, v |-> None, ret |-> [pending |-> TRUE]] : t \in MoneyTexts}
    /\ pc = "parse_money"
    /\ xml_root = <<>>
    /\ errors = <<>>
    /\ errors0 = <<>>
    /\ trace = <<>>
    /\ ran = {}
    /\ valid = FALSE
    /\ status = 200

\* if not s: return None
MoneyEmpty ==
    /\ pc = "parse_money"
    /\ locals.s = None \/ locals.s = <<>>
    /\ locals' = [locals EXCEPT !.ret = _parse_money(locals.s)]
    /\ pc' = "returned"
    /\ UNCHANGED <<xml_root, errors, errors0, trace, ran, valid, status>>

\* v = s.strip() and the four replacements
MoneyNormalise ==
    /\ pc = "parse_money"
    /\ ~(locals.s = None \/ locals.s = <<>>)
    /\ locals' = [locals EXCEPT !.v = MoneyClean(locals.s)]
    /\ pc' = "float"
    /\ UNCHANGED <<xml_root, errors, errors0, trace, ran, valid, status>>

\* return float(v)
MoneyReturn ==
    /\ pc = "float"
    /\ float(locals.v) # Raise
    /\ locals' = [locals EXCEPT !.ret = _parse_money(locals.s)]
    /\ pc' = "returned"
    /\ UNCHANGED <<xml_root, errors, errors0, trace, ran, valid, status>>

\* except Exception: return None
MoneyExcept ==
    /\ pc = "float"
    /\ float(locals.v) = Raise
    /\ locals' = [locals EXCEPT !.ret = _parse_money(locals.s)]
    /\ pc' = "returned"
    /\ UNCHANGED <<xml_root, errors, errors0, trace, ran, valid, status>>

NextMoney ==
    \/ MoneyEmpty
    \/ MoneyNormalise
    \/ MoneyReturn
    \/ MoneyExcept

SpecMoney == InitMoney /\ [][NextMoney]_vars

\* the characters of s that are in S, in order
Only(s, S) == SelectSeq(s, LAMBDA c : c \in S)

\* s without the currency symbols and without the blanks
Unadorned(s) == Only(Replace(Only(s, {c \in Range(s) : c # EURO}), Chars("EUR"), <<>>),
                     {c \in Range(s) : c \notin Space})

\* the decimal text s denotes: with both separators every '.' groups
\* thousands and ',' is the decimal point, otherwise ',' is the decimal point
Separated(u) ==
    LET both == \E i, j \in 1..Len(u) : u[i] = "." /\ u[j] = ","
    IN  [i \in 1..Len(Only(u, IF both THEN Range(u) \ {"."} ELSE Range(u))) |->
            LET c == Only(u, IF both THEN Range(u) \ {"."} ELSE Range(u))[i]
            IN  IF c = "," THEN "." ELSE c]

\* a number in figures: a sign at most, figures, one decimal point at most
InFigures(t) ==
    LET b == IF t # <<>> /\ t[1] \in {"+", "-"} THEN Tail(t) ELSE t
    IN  /\ Only(b, Digit) # <<>>
        /\ Only(b, Digit \cup {"."}) = b
        /\ Len(Only(b, {"."})) <= 1

\* binary64 1234.56 = 5429503678976 * 2^-42 + ..., as limbs and exponent
F_1234_56 == [sign |-> 0, m |-> <<22282, 24903, 10485, 154>>, e |-> 0 - 42]

\* C11: _parse_money strips currency symbols and spaces; with both '.' and
\* ',' every '.' is removed and ',' is the decimal point, otherwise a lone
\* ',' is the decimal point; '1.234,56', '1234.56' and '1234,56' give
\* 1234.56; every input that is empty or not a number gives None.
C11_ParseMoney ==
    pc = "returned" =>
        /\ locals.s \in {Chars("1.234,56"), Chars("1234.56"), Chars("1234,56")}
              => locals.ret = F_1234_56
        /\ locals.s = Chars("abc") => locals.ret = NoNumber
        /\ locals.s \in {None, <<>>} => locals.ret = NoNumber
        /\ locals.s \notin {None, <<>>} =>
              locals.ret = IF InFigures(Separated(Unadorned(locals.s)))
                           THEN float(Separated(Unadorned(locals.s)))
                           ELSE NoNumber

\* C11 holds of every text but the words float() reads as numbers
MoneyOfFigures ==
    pc = "returned" /\ ~FloatWord(MoneyClean(IF locals.s = None THEN <<>> ELSE locals.s))
        => C11_ParseMoney


(***************************************************************************)
(* SpecPdfTotals: purchase_pdf() on pages that differ in the three         *)
(* labelled amounts.                                                       *)
(***************************************************************************)
\* the text of a page whose lines are the strings ls
Page(ls) == Join([k \in 1..Len(ls) |-> Chars(ls[k])], <<"\n">>)

\* the lines every page of the totals starts with
PAGE_HEAD == <<"FATURA FT 2024/15", "Data: 15/03/2024">>

BaseAmounts == {"", "100,00", "100,05", "1,05", "0,00"}

IvaAmounts == {"", "23,00", "46,00", "0,00", "150,00", "0,10"}

TotalAmounts == {"", "123,00", "146,05", "1,00", "123,06", "1.234,56", "0,30"}

\* the line label amount, or no line for no amount
Labelled(label, amount) == IF amount = "" THEN <<>> ELSE <<label \o amount>>

TotalsPages ==
    {Page(PAGE_HEAD \o Labelled("TOTAL ", t) \o Labelled("Valor Base: ", b) \o Labelled("IVA: ", i)) :
        b \in BaseAmounts, i \in IvaAmounts, t \in TotalAmounts}

InitPdfTotals == \E text \in TotalsPages : InitPdf(text)

SpecPdfTotals == InitPdfTotals /\ [][NextPdf]_vars

\* the step named at has run
Ran(at) == \E k \in 1..Len(trace) : trace[k] = at

\* what follows the label on the first line of the page that starts with it, or None
AfterLabel(ls, label, at) ==
    IF at = {} THEN None ELSE Drop(ls[Least(at)], Len(label))

Amount(str) ==
    AfterLabel(SplitLines(locals.ocr_text_raw), Chars(str),
               {k \in 1..Len(SplitLines(locals.ocr_text_raw)) :
                   StartsWith(SplitLines(locals.ocr_text_raw)[k], Chars(str))})

\* an amount of money in hundredths
Hundredths(amount) == NatOfDigits(Only(amount, Digit), 0)

RECURSIVE Figures(_)
Figures(n) == IF n < 10 THEN <<DIGITS[n + 1]>> ELSE Figures(n \div 10) \o <<DIGITS[(n % 10) + 1]>>

\* n hundredths written with a decimal comma
CommaAmount(n) ==
    Figures(n \div 100) \o <<",", DIGITS[((n % 100) \div 10) + 1], DIGITS[(n % 10) + 1]>>

\* no Base on the page, IVA and TOTAL on it, TOTAL >= IVA
Inferable(b, i, t) == b = None /\ i # None /\ t # None /\ Hundredths(t) >= Hundredths(i)

C12_Expected(b, i, t) ==
    IF Inferable(b, i, t)
    THEN /\ locals.invoice.base.value = CommaAmount(Hundredths(t) - Hundredths(i))
         /\ locals.invoice.base.status = "inferido"
         /\ locals.invoice.base.note # <<>>
    ELSE locals.invoice.base.status # "inferido"

\* C12: when no Base was extracted and IVA and TOTAL were, and TOTAL >= IVA,
\* the Base field holds TOTAL - IVA with two decimals and a decimal comma, its
\* status is the inferred one ("inferido") and its note is not empty (IVA
\* 23,00 and TOTAL 123,00 give 100,00); in every other case the Base field
\* does not have the inferred status.
C12_BaseInference ==
    Ran("fields") =>
        /\ C12_Expected(Amount("Valor Base: "), Amount("IVA: "), Amount("TOTAL "))
        /\ (Amount("Valor Base: ") = None /\ Amount("IVA: ") = Chars("23,00")
            /\ Amount("TOTAL ") = Chars("123,00"))
              => locals.invoice.base.value = Chars("100,00")

\* the Base of IVA 23,00 and TOTAL 123,00 was inferred
C12_Witness ==
    /\ Ran("fields")
    /\ Amount("Valor Base: ") = None
    /\ Amount("IVA: ") = Chars("23,00")
    /\ Amount("TOTAL ") = Chars("123,00")
    /\ locals.invoice.base.value = Chars("100,00")
    /\ locals.invoice.base.status = "inferido"

\* the distance between x and y
Distance(x, y) == IF x >= y THEN x - y ELSE y - x

\* the three amounts the coherence check reads are all there
AllAmounts == locals.base_s # None /\ locals.iva_s # None /\ locals.total_s # None

\* Base + IVA is more than 0.05 away from TOTAL, in whole hundredths
FarApart ==
    Distance(Hundredths(locals.base_s) + Hundredths(locals.iva_s), Hundredths(locals.total_s)) > 5

\* C13: the incoherence error is appended exactly when the three amounts all
\* parse and |Base + IVA - TOTAL| > 0.05; the confidence error is appended
\* exactly when at least one of them is absent or unparseable; the two are
\* never appended together.
C13_Coherence ==
    Ran("coherence") =>
        /\ (TOTAIS_INCOERENTES \in Range(errors)) <=> (AllAmounts /\ FarApart)
        /\ (TOTAIS_CONFIANCA \in Range(errors)) <=> ~AllAmounts
        /\ ~(TOTAIS_INCOERENTES \in Range(errors) /\ TOTAIS_CONFIANCA \in Range(errors))

\* the part of C13 that does not depend on the distance being exactly 0.05
CoherenceAwayFromTolerance ==
    Ran("coherence") =>
        /\ (TOTAIS_CONFIANCA \in Range(errors)) <=> ~AllAmounts
        /\ ~(TOTAIS_INCOERENTES \in Range(errors) /\ TOTAIS_CONFIANCA \in Range(errors))
        /\ (TOTAIS_INCOERENTES \in Range(errors)) => (AllAmounts /\ ~FarApart =>
              Distance(Hundredths(locals.base_s) + Hundredths(locals.iva_s),
                       Hundredths(locals.total_s)) = 5)
        /\ (AllAmounts /\ FarApart) => TOTAIS_INCOERENTES \in Range(errors)

\* no Base on the page, IVA and TOTAL on it, TOTAL < IVA
TotalBelowIva(b, i, t) == b = None /\ i # None /\ t # None /\ Hundredths(t) < Hundredths(i)

\* C20: a run whose Base was inferred has a Base within 0.05 of TOTAL - IVA
\* and gets neither the incoherence error nor the confidence error; a run
\* with no Base on the page and TOTAL < IVA infers no Base and gets the
\* confidence error.
C20_InferredBaseCoherent ==
    Ran("coherence") =>
        /\ locals.invoice.base.status = "inferido" =>
              /\ AllAmounts /\ ~FarApart
              /\ TOTAIS_INCOERENTES \notin Range(errors)
              /\ TOTAIS_CONFIANCA \notin Range(errors)
        /\ TotalBelowIva(Amount("Valor Base: "), Amount("IVA: "), Amount("TOTAL ")) =>
              /\ locals.base_s = None
              /\ locals.invoice.base.status # "inferido"
              /\ TOTAIS_CONFIANCA \in Range(errors)

\* a run with an inferred Base went through the coherence check without error
C20_Witness ==
    /\ Ran("coherence")
    /\ Amount("Valor Base: ") = None
    /\ locals.invoice.base.status = "inferido"
    /\ locals.invoice.base.value = Chars("1211,56")
    /\ errors = <<>>


(***************************************************************************)
(* SpecPdfDate: purchase_pdf() on pages that differ in the date.           *)
(***************************************************************************)
\* the lines of a page with coherent amounts
PAGE_AMOUNTS == <<"TOTAL 123,00", "Valor Base: 100,00", "IVA: 23,00">>

DateDays == {"00", "01", "28", "29", "30", "31", "32", "39"}

DateMonths == {"00", "01", "02", "04", "12", "13", "19"}

DateYears == {"0000", "1900", "2000", "2023", "2024"}

DateLines ==
    {"Data: " \o d \o "/" \o m \o "/" \o y : d \in DateDays, m \in DateMonths, y \in DateYears}
    \cup {"Emitido em " \o d \o "/" \o m \o "/2024" : d \in DateDays, m \in DateMonths}
    \cup {"Data: 2024-02-31", "Data: 31-02-2024", "Data: 45/01/2024", "Data: 10/21/2024",
          "Sem data", "Data: 31/02/2024 Vencimento: 01/03/2024", "Data: 1/2/2024"}

DatePages == {Page(<<"FATURA FT A/15", ln>> \o PAGE_AMOUNTS) : ln \in DateLines}

InitPdfDate == \E text \in DatePages : InitPdf(text)

SpecPdfDate == InitPdfDate /\ [][NextPdf]_vars

\* the number written by the figures of s from its place a to its place b
Number(s, a, b) == NatOfDigits(SubSeq(s, a, b), 0)

LeapYear(y) == (y % 4 = 0 /\ y % 100 # 0) \/ y % 400 = 0

CalendarDays(y, m) ==
    IF m = 2 THEN (IF LeapYear(y) THEN 29 ELSE 28)
    ELSE IF m \in {4, 6, 9, 11} THEN 30 ELSE 31

\* day d of month m of year y is a day of the calendar
CalendarValid(d, m, y) == y >= 1 /\ m \in 1..12 /\ d >= 1 /\ d <= CalendarDays(y, m)

\* date reads DD/MM/YYYY
IsDMY(date) ==
    /\ Len(date) = 10
    /\ date[3] = "/" /\ date[6] = "/"
    /\ \A k \in {1, 2, 4, 5, 7, 8, 9, 10} : date[k] \in Digit

\* C14: when the extracted date is a DD/MM/YYYY token, the date error is
\* appended exactly when day, month and year are not a date of the calendar
\* (31/02/2024 is rejected); a calendar-valid date never gets the date error.
C14_DateCheck ==
    (Ran("date_check") /\ IsDMY(locals.date)) =>
        (DATA_INVALIDA \in Range(errors)
            <=> ~CalendarValid(Number(locals.date, 1, 2), Number(locals.date, 4, 5),
                               Number(locals.date, 7, 10)))

\* 31/02/2024 was extracted and rejected
C14_Witness ==
    /\ Ran("date_check")
    /\ locals.date = Chars("31/02/2024")
    /\ errors = <<DATA_INVALIDA>>

\* 29/02/2024 was extracted and accepted
LeapDayAccepted ==
    /\ Ran("date_check")
    /\ locals.date = Chars("29/02/2024")
    /\ errors = <<>>


(***************************************************************************)
(* SpecPdfSignals: purchase_pdf() on a page that carries every signal, on  *)
(* the pages that lack some of its lines, and on short texts.              *)
(***************************************************************************)
SIGNAL_LINES ==
    <<"FATURA", "FT 2024/15", "Data: 15/03/2024", "ATCUD: ABCD1234-15",
      "Marques & Filhos, Lda.", "NIF 501964843", "CIA LINUX Lda", "Contribuinte: 123456789",
      "Valor Base: 100,00", "IVA: 23,00", "Incidencia Taxa Valor IVA", "100,00 23,00 23,00",
      "TOTAL 123,00", "Programa certificado no 1234/AT", "QR Code">>

\* the lines of the page with a signal, all but the three amounts
SignalOnly == (1..8) \cup {11, 12, 14, 15}

\* how many lines of the page are absent together
MaxAbsent == 1

RECURSIVE Pick(_, _, _)
\* the lines of ls from place k on whose place is not in absent
Pick(ls, absent, k) ==
    IF k > Len(ls) THEN <<>>
    ELSE (IF k \in absent THEN <<>> ELSE <<ls[k]>>) \o Pick(ls, absent, k + 1)

AbsentLines ==
    {a \in SUBSET (1..Len(SIGNAL_LINES)) : Cardinality(a) <= MaxAbsent}
    \cup {{6, 8}, {5, 7}, {11, 12}, {1, 2}, SignalOnly}

ShortTexts ==
    {"", "FATURA", "TOTAL 123,00", "FATURA TOTAL 1,00 IVA: 0,00",
     "  FATURA FT 2024/15 15/03/2024 \n ", "FATURA FT 2024/151 15/03/2024",
     "FATURA FT 2024/15 15/03/2024 .", "Data: 31/02/2024 TOTAL 9,00"}

SignalPages ==
    {Page(Pick(SIGNAL_LINES, a, 1)) : a \in AbsentLines} \cup {Chars(t) : t \in ShortTexts}

InitPdfSignals == \E text \in SignalPages : InitPdf(text)

SpecPdfSignals == InitPdfSignals /\ [][NextPdf]_vars

\* <<the signal is absent, the status of its field>> for the attributes read off the page
Signals(l) ==
    <<<<l.doc_type = "DESCONHECIDO", l.invoice.doc_type.status>>,
      <<Falsy(l.invno), l.invoice.numero.status>>,
      <<Falsy(l.date), l.invoice.data.status>>,
      <<Falsy(l.atcud), l.invoice.atcud.status>>,
      <<Falsy(l.fornecedor_nome), l.invoice.fornecedor_nome.status>>,
      <<Falsy(l.cliente_nome), l.invoice.cliente_nome.status>>,
      <<Falsy(l.fornecedor_nif), l.invoice.fornecedor_nif.status>>,
      <<Falsy(l.cliente_nif), l.invoice.cliente_nif.status>>,
      <<Falsy(l.taxa_s), l.invoice.taxa.status>>,
      <<~l.sw_cert, l.invoice.software_cert.status>>,
      <<~l.qr_hint, l.invoice.qr.status>>>>

AbsentGivesWarn(sg) == \A k \in 1..Len(sg) : sg[k][1] => sg[k][2] = "warn"

\* the errors that do not report an absent signal
OtherErrors ==
    {OCR_CURTO, DOC_WARN_NAO_FATURA, TOTAIS_INCOERENTES, TOTAIS_CONFIANCA, DATA_INVALIDA}

\* C15: the absence of a signal (document type, number, date, ATCUD, supplier
\* or customer name, supplier or customer NIF, tax rate, certification
\* marker, QR marker) gives its field the status "warn" and adds no entry to
\* the error list.
C15_AbsentSignalWarns ==
    Ran("fields") => AbsentGivesWarn(Signals(locals)) /\ Range(errors) \subseteq OtherErrors

\* C15 for every signal but the document type
AbsentSignalWarnsButDocType ==
    Ran("fields") =>
        /\ AbsentGivesWarn(Signals(locals))
        /\ Range(errors) \subseteq OtherErrors \cup {DOC_WARN_DESCONHECIDO}
        /\ DOC_WARN_DESCONHECIDO \in Range(errors) <=> locals.doc_type = "DESCONHECIDO"

\* a page whose only absent signal is the document type is judged invalid
DocTypeAbsentInvalid ==
    /\ pc = "done"
    /\ locals.ocr_text_raw = Page(Pick(SIGNAL_LINES, {1}, 1))
    /\ errors = <<DOC_WARN_DESCONHECIDO>>
    /\ ~valid

\* the text of the page is shorter than 30 characters
ShortText == Len(Strip(locals.ocr_text_raw)) < 30

\* C16: a text of fewer than 30 characters is rejected before extraction:
\* the too-short error is reported, no extraction pass, base inference or
\* coherence check runs, no field map is made and no further error is
\* appended.
C16_ShortTextRejected ==
    (Ran("ocr") /\ ShortText) =>
        /\ errors = <<OCR_CURTO>>
        /\ \A at \in {"doc_type", "nifs", "names", "totals", "infer", "fields", "coherence",
                      "date_check"} : ~Ran(at)

\* the too-short error is reported for the texts of fewer than 30 characters and no other
ShortTextReported ==
    Ran("ocr") =>
        /\ OCR_CURTO \in Range(errors) <=> ShortText
        /\ ShortText => errors[1] = OCR_CURTO /\ ~valid

\* a short text went through the extraction and got a further error
ShortTextExtracted ==
    /\ pc = "done"
    /\ locals.ocr_text_raw = Chars("Data: 31/02/2024 TOTAL 9,00")
    /\ Ran("fields")
    /\ locals.invoice.total.value = Chars("9,00")
    /\ errors = <<OCR_CURTO, DOC_WARN_DESCONHECIDO, TOTAIS_CONFIANCA, DATA_INVALIDA>>


(***************************************************************************)
(* SpecNoHeader: index() on documents without Header whose other sections  *)
(* vary, and on documents with one.                                        *)
(***************************************************************************)
NoHeaderDocs ==
    {[d EXCEPT !.Header = <<>>] :
        d \in TaxDocs \cup AtcudDocs \cup RefDocs
              \cup {[E2E EXCEPT !.Payments = <<[Payment |-> PayElements(<<v>>)]>>] :
                       v \in PayVariants}
              \cup {[E2E EXCEPT !.SalesInvoices[1].Invoice = TotalsInvoices(<<t>>)] :
                       t \in TotalsTexts}}
    \cup {E2E, [E2E EXCEPT !.Header[1].TaxRegistrationNumber = None]}

InitNoHeader == \E d \in NoHeaderDocs : InitIndex(d)

SpecNoHeader == InitNoHeader /\ [][Next]_vars

HEADER_EM_FALTA == <<"Header em falta.">>

\* what the six passes after the header passes find in the document
LaterFindings(d) ==
    validar_payments(d,
      validar_products(d,
        validar_customers(d,
          validar_atcud_hash_sales_invoices(d,
            validar_sales_invoices(d,
              validar_tax_table(d, <<>>))))))

\* the passes that come after the three header passes
LATER == {PASSES[i] : i \in 4..Len(PASSES)}

\* C17: on a document without Header, validar_header appends the one
\* message that the Header is missing, validar_datas and validar_nif append
\* nothing, and each of the six later passes runs and appends what it finds.
C17_NoHeader ==
    (xml_root.Header = <<>> /\ "header" \in ran) =>
        /\ SubSeq(errors, 1, 1) = <<HEADER_EM_FALTA>>
        /\ pc \in {"datas", "nif", "tax_table"} => errors = <<HEADER_EM_FALTA>>
        /\ pc \in {"decide", "done"} =>
              /\ ran = Range(PASSES)
              /\ errors = <<HEADER_EM_FALTA>> \o LaterFindings(xml_root)

\* a document without Header ended with the one header message and findings of later passes
C17_Witness ==
    /\ pc = "done"
    /\ xml_root.Header = <<>>
    /\ LATER \subseteq ran
    /\ Len(errors) >= 3
    /\ errors[1] = HEADER_EM_FALTA
    /\ \A k \in 2..Len(errors) : errors[k][1] \notin
          {"Header em falta.", "Header.{campo} e obrigatorio.", "NIF invalido no Header.",
           "Datas fiscais invalidas no Header.", "FiscalYear nao corresponde ao ano de StartDate.",
           "StartDate nao pode ser maior que EndDate."}


(***************************************************************************)
(* SpecPdfNifs: purchase_pdf() on pages that differ in the lines with      *)
(* nine-digit numbers.                                                     *)
(***************************************************************************)
NIF_LINES ==
    {"NIF 501964843", "Contribuinte: 123456789", "contrib.: 502011378", "NIF 111111111",
     "Contribuinte sem numero", "NIF: 502011378", "CONTRIBUINTE 501964843", "Contrib: 123456789",
     "Contribuinte: 123456780", "PT 501964843 / PT-123456789",
     "NIF 501964843 contribuinte 123456789", "5019648431234567890", "Contrib 502011378"}

\* the lines that occur several to a page
NIF_LINES_CORE == {"NIF 501964843", "Contribuinte: 123456789", "contrib.: 502011378"}

MaxNifLines == 2

NifPages ==
    {Page(<<"FATURA FT A/15", ln>> \o PAGE_AMOUNTS) : ln \in NIF_LINES}
    \cup {Page(<<"FATURA FT A/15">> \o ls \o PAGE_AMOUNTS) :
            ls \in SeqsUpTo(NIF_LINES_CORE, MaxNifLines)}
    \cup {Page(<<"FATURA FT A/15", "NIF 501964843 contribuinte 123456789">>),
          Page(<<"NIF 501964843">>),
          Page(<<"FATURA FT A/15", "NIF 111111111", "Contribuinte: 123456789">> \o PAGE_AMOUNTS),
          Page(<<"FATURA FT A/15", "Contribuinte: 123456780", "NIF 501964843">> \o PAGE_AMOUNTS),
          Page(<<"FATURA FT A/15", "Contribuinte sem numero", "NIF 502011378", "NIF 501964843",
                 "Contribuinte: 502011378">> \o PAGE_AMOUNTS)}

InitPdfNifs == \E text \in NifPages : InitPdf(text)

SpecPdfNifs == InitPdfNifs /\ [][NextPdf]_vars

\* the places of text where a run of figures starts
FigureStarts(text) ==
    {k \in 1..Len(text) : text[k] \in Digit /\ (k = 1 \/ text[k - 1] \notin Digit)}

\* the length of the run of figures of text that starts at its place k
FiguresFrom(text, k) ==
    Least({j \in k..(Len(text) + 1) : j > Len(text) \/ text[j] \notin Digit}) - k

\* the places of text where a candidate starts: every ninth figure of a run
\* that starts at one of the places ks, as long as nine figures are left
CandidateStarts(text, ks) ==
    {p \in 1..Len(text) : \E k \in ks :
        p >= k /\ (p - k) % 9 = 0 /\ p + 8 <= k + FiguresFrom(text, k) - 1}

\* the candidate that starts at the place p is valid and is not a repetition
FirstSeenValid(text, ps, p) ==
    /\ app_validar_nif_pt(SubSeq(text, p, p + 8))
    /\ \A q \in ps : q < p => SubSeq(text, q, q + 8) # SubSeq(text, p, p + 8)

RECURSIVE InOrder(_, _)
\* the nine figures at the places ps of text, from the first place to the last
InOrder(text, ps) ==
    IF ps = {} THEN <<>>
    ELSE <<SubSeq(text, Least(ps), Least(ps) + 8)>> \o InOrder(text, ps \ {Least(ps)})

FirstSeenValidOf(text, ps) == InOrder(text, {p \in ps : FirstSeenValid(text, ps, p)})

\* the valid NIFs of the text, each once, in the order they are first seen
ValidSet(text) == FirstSeenValidOf(text, CandidateStarts(text, FigureStarts(text)))

\* the lines that carry one of the markers and a valid NIF
MarkedLines(ls, v, markers) ==
    {k \in 1..Len(ls) : /\ \E mk \in markers : Contains(lower(ls[k]), Chars(mk))
                        /\ \E j \in 1..Len(v) : Contains(ls[k], v[j])}

\* the customer NIF by the rule: the valid NIF of the first marked line, else the first valid NIF
CustomerBy(ls, v, marked) ==
    IF marked # {} THEN v[Least({j \in 1..Len(v) : Contains(ls[Least(marked)], v[j])})]
    ELSE IF v = <<>> THEN None ELSE v[1]

\* the supplier NIF by the rule: the first valid NIF that is not the customer's
SupplierBy(v, customer) ==
    IF customer = None \/ {j \in 1..Len(v) : v[j] # customer} = {} THEN None
    ELSE v[Least({j \in 1..Len(v) : v[j] # customer})]

NifRule(l, v, customer) ==
    /\ l.nifs_validos = v
    /\ l.cliente_nif = customer
    /\ l.fornecedor_nif = SupplierBy(v, customer)

\* the rule of the selection, the customer line being marked by one of markers
NifRuleOf(l, v, markers) == NifRule(l, v, CustomerBy(l.lines, v, MarkedLines(l.lines, v, markers)))

NifConsequences(l) ==
    /\ l.cliente_nif # None => l.cliente_nif \in Range(l.nifs_validos)
    /\ l.fornecedor_nif # None => l.fornecedor_nif \in Range(l.nifs_validos)
    /\ l.fornecedor_nif # None => l.fornecedor_nif # l.cliente_nif
    /\ Len(l.nifs_validos) < 2 => l.fornecedor_nif = None
    /\ Len(l.nifs_validos) >= 2 => l.cliente_nif # None /\ l.fornecedor_nif # None
    /\ \A j, k \in 1..Len(l.nifs_validos) : j # k => l.nifs_validos[j] # l.nifs_validos[k]

\* C18 as stated: the candidates are deduplicated in first-seen order and
\* filtered by the checksum; the customer NIF is the valid NIF on a line
\* with a 'contribu' marker, else the first valid NIF; the supplier NIF is
\* the first valid NIF that differs from it; both are valid NIFs, they
\* differ, the supplier NIF is absent with fewer than two valid NIFs and
\* both are present with two.
C18_NifSelection ==
    Ran("nifs") =>
        /\ NifRuleOf(locals, ValidSet(locals.text_norm), {"contribu"})
        /\ NifConsequences(locals)

\* C18 amended: as C18, the marker of the customer line being any of
\* 'contribu', 'contrib.' and 'contrib:' (in any case of the letters).
C18_NifSelectionMarkers ==
    Ran("nifs") =>
        /\ NifRuleOf(locals, ValidSet(locals.text_norm), {"contribu", "contrib.", "contrib:"})
        /\ NifConsequences(locals)

\* the customer NIF was taken from a 'contrib.' line that is not the first valid NIF
C18_Witness ==
    /\ Ran("nifs")
    /\ locals.ocr_text_raw =
          Page(<<"FATURA FT A/15", "NIF 501964843", "contrib.: 502011378">> \o PAGE_AMOUNTS)
    /\ locals.nifs_validos = <<Chars("501964843"), Chars("502011378")>>
    /\ locals.cliente_nif = Chars("502011378")
    /\ locals.fornecedor_nif = Chars("501964843")


(***************************************************************************)
(* SpecPdfTable: purchase_pdf() on pages that differ in the labelled       *)
(* amounts, the tax breakdown tables and the generic IVA line.             *)
(***************************************************************************)
\* the lines that occur several to a page
TABLE_LINES_CORE ==
    {"Valor Base: 80,00", "Incidencia Taxa Valor IVA", "100,00 23,00 23,00", "45,00 6,00 2,70",
     "IVA 23% 11,50"}

MaxTableLines == 2

TABLE_HEADER == "Incidencia Taxa Valor IVA"

TablePages ==
    {Page(<<"FATURA">> \o ls) : ls \in SeqsUpTo(TABLE_LINES_CORE, MaxTableLines)}
    \cup
    {Page(<<"FATURA FT A/15">> \o ls) : ls \in
        {<<TABLE_HEADER, "100,00 23,00 23,00", "TOTAL 123,00">>,
         <<"Valor Base: 100,00", "IVA: 23,00", "TOTAL 123,00">>,
         <<"Valor Base: 80,00", "IVA: 18,40", TABLE_HEADER, "100,00 23,00 23,00">>,
         <<"IVA: 18,40", TABLE_HEADER, "100,00 23,00 23,00">>,
         <<TABLE_HEADER, "100,00 23,00 23,00", "Valor Base: 80,00", "IVA: 18,40">>,
         <<TABLE_HEADER, "Outros 10,00", "a", "b", "c", "45,00 6,00 2,70 extra">>,
         <<TABLE_HEADER, "Outros 10,00", "a", "b", "c", "d", "45,00 6,00 2,70">>,
         <<TABLE_HEADER, "10,00 23,00", "x 1,00 2,00 3,00", "45,00 6,00 2,70", "100,00 23,00 23,00">>,
         <<"Incidência e Taxa", "  1.000,00   23,00   230,00">>,
         <<TABLE_HEADER, TABLE_HEADER, "45,00 6,00 2,70", "100,00 23,00 23,00">>,
         <<TABLE_HEADER, "a", TABLE_HEADER, "b", "c", "d", "e", "45,00 6,00 2,70">>,
         <<TABLE_HEADER, "Outros 10,00", "IVA 23% 11,50", "IVA 23 sobre tudo 7,00">>,
         <<"IVA 23% 11,50", "IVA: 18,40", TABLE_HEADER>>,
         <<"100,00 23,00 23,00", "Valor IVA", "Taxa">>,
         <<"Valor Base: 80,00", "Valor Base: 100,00", "IVA 23% 11,50", TABLE_HEADER,
           "45,00 6,00 2,70">>}}

InitPdfTable == \E text \in TablePages : InitPdf(text)

SpecPdfTable == InitPdfTable /\ [][NextPdf]_vars

\* the characters of an amount
AmountChars == Digit \cup {",", "."}

\* ln starts with three amounts: a row of a table
IsRow(ws) == Len(ws) >= 3 /\ \A k \in 1..3 : AllIn(ws[k], AmountChars)

\* ln is the header of a table
IsTableHeader(ln) == StartsWith(ln, Chars("Incid"))

\* the amount after the label on the last line of ls that starts with it, or None
LastLabelled(ls, label, at) ==
    IF at = {} THEN None ELSE Drop(ls[CHOOSE k \in at : \A j \in at : j <= k], Len(label))

LabelAmount(ls, str) ==
    LastLabelled(ls, Chars(str), {k \in 1..Len(ls) : StartsWith(ls[k], Chars(str))})

\* the rows among the five lines after the line h of ls
RowsAfter(ls, h) == {j \in (h + 1)..(h + 5) : j <= Len(ls) /\ IsRow(Split(ls[j]))}

\* the headers of ls that have a row among the five lines after them
Tables(ls) == {h \in 1..Len(ls) : IsTableHeader(ls[h]) /\ RowsAfter(ls, h) # {}}

\* the words of the row of the first table of ls
FirstRow(ls, tables) ==
    IF tables = {} THEN <<None, None, None>>
    ELSE Split(ls[Least(RowsAfter(ls, Least(tables)))])

\* the amount of the first line of ls with the generic pattern, or None
Generic(ls, at) == IF at = {} THEN None ELSE Split(ls[Least(at)])[Len(Split(ls[Least(at)]))]

GenericIva(ls) == Generic(ls, {k \in 1..Len(ls) : StartsWith(ls[k], Chars("IVA 23"))})

\* x if there is one, else y, else z
FirstOf(x, y, z) == IF x # None THEN x ELSE IF y # None THEN y ELSE z

\* what the labels, the first table and the generic pattern give, in that order
TableRule(l, ls, row) ==
    /\ l.base_s = FirstOf(LabelAmount(ls, "Valor Base: "), row[1], None)
    /\ l.taxa_s = row[2]
    /\ l.iva_s = FirstOf(LabelAmount(ls, "IVA: "), row[3], GenericIva(ls))

\* C19: the tax breakdown table does not overwrite a value already found:
\* after a header only the first row among the next five lines is used, for
\* base, rate and IVA in that order and only where they are still empty;
\* the values of the labelled lines and of an earlier table are kept, and
\* the generic 'IVA 23%' pattern gives the IVA only when it is still missing
\* after the tables.
C19_TableKeepsFound ==
    pc = "infer" =>
        TableRule(locals, SplitLines(locals.ocr_text_raw),
                  FirstRow(SplitLines(locals.ocr_text_raw), Tables(SplitLines(locals.ocr_text_raw))))

\* labelled Base and IVA were kept and only the rate was taken from the table
C19_Witness ==
    /\ pc = "infer"
    /\ locals.ocr_text_raw =
          Page(<<"FATURA FT A/15", "Valor Base: 80,00", "IVA: 18,40", TABLE_HEADER,
                 "100,00 23,00 23,00">>)
    /\ locals.base_s = Chars("80,00")
    /\ locals.iva_s = Chars("18,40")
    /\ locals.taxa_s = Chars("23,00")


(***************************************************************************)
(* SpecPdfTotalLines: purchase_pdf() on pages with several TOTAL lines,    *)
(* several labelled lines and the 'TOTAL (Euros)' phrase.                  *)
(***************************************************************************)
\* the lines that occur several to a page
TOTAL_LINES_CORE ==
    {"TOTAL 123,00", "TOTAL: 1.234,56 EUR", "TOTAL a pagar", "Total (Euros) 88.10",
     "Valor Base: 100,00", "Valor Base: 80,00", "IVA: 23,00"}

MaxTotalLines == 2

TotalLinePages ==
    {Page(<<"FATURA">> \o ls) : ls \in SeqsUpTo(TOTAL_LINES_CORE, MaxTotalLines)}
    \cup
    {Page(<<"FATURA FT A/15">> \o ls) : ls \in
        {<<"TOTAL 123,00", "Valor Base: 100,00", "IVA: 23,00">>,
         <<"TOTAL 99,10", "TOTAL 123,00", "Valor Base: 80,00", "Valor Base: 100,00", "IVA: 18,40",
           "IVA: 23,00">>,
         <<"TOTAL 123,00", "TOTAL a pagar", "SUBTOTAL 50,00", "Total 99,10", "50,00 TOTAL">>,
         <<"Total 99,10", "SUBTOTAL 50,00">>,
         <<"TOTAL (Euros) 77,00", "Total (Euros) 88.10">>,
         <<"Total (Euros) 88.10", "TOTAL (Euros) 77,00", "TOTAL 123,00">>,
         <<"TOTAL a pagar", "Total (Euros)", "88.10", "Total (Euros) 77,00">>,
         <<"TOTAL 7,00 TOTAL 9,00", "IVA: 23,00", "IVA: 0,00", "IVA: 18,40">>,
         <<"TOTAL 123,00", "Sub Total 100,00 TOTAL 146,00">>,
         <<"Sub Total 100,00 TOTAL 146,00", "Valor Base: 100,00", "IVA: 46,00">>,
         <<"Total 5,00 TOTAL", "Total (Euros) 88.10">>}}

InitPdfTotalLines == \E text \in TotalLinePages : InitPdf(text)

SpecPdfTotalLines == InitPdfTotalLines /\ [][NextPdf]_vars

\* the word w is the token TOTAL
IsTotalToken(w) == w = Chars("TOTAL") \/ w = Chars("TOTAL:")

\* the word w is a money value
IsAmountWord(w) ==
    /\ Len(w) >= 4
    /\ AllIn(w, AmountChars)
    /\ w[1] \in Digit /\ w[Len(w)] \in Digit /\ w[Len(w) - 1] \in Digit
    /\ w[Len(w) - 2] \in {",", "."}

\* the places of the words ws where the token TOTAL has a money value after it
TotalTokens(ws) ==
    {k \in 1..Len(ws) : IsTotalToken(ws[k]) /\ \E j \in (k + 1)..Len(ws) : IsAmountWord(ws[j])}

\* the first money value after the place k of the words ws
AmountAfter(ws, k) == ws[Least({j \in (k + 1)..Len(ws) : IsAmountWord(ws[j])})]

\* the money value that follows the token TOTAL in the words ws
TotalOfWords(ws, tokens) == AmountAfter(ws, Least(tokens))

\* the lines of ls with the token TOTAL followed by a money value
TotalLinesOf(ls) == {k \in 1..Len(ls) : TotalTokens(Split(ls[k])) # {}}

\* the places of the words ws where the phrase 'TOTAL (Euros)' and a money value start
PhraseStarts(ws) ==
    {k \in 1..(Len(ws) - 2) : /\ lower(ws[k]) = Chars("total")
                              /\ lower(ws[k + 1]) = Chars("(euros)")
                              /\ IsAmountWord(ws[k + 2])}

PhraseTotal(ws, starts) == IF starts = {} THEN None ELSE ws[Least(starts) + 2]

\* the last of the places at
Last(at) == CHOOSE k \in at : \A j \in at : j <= k

\* the Total by the rule: the value of the last TOTAL line, else that of the phrase
TotalBy(ls, at, ws) ==
    IF at # {} THEN TotalOfWords(Split(ls[Last(at)]), TotalTokens(Split(ls[Last(at)])))
    ELSE PhraseTotal(ws, PhraseStarts(ws))

LastWins(l, ls) ==
    /\ l.total_s = TotalBy(ls, TotalLinesOf(ls), Split(l.ocr_text_raw))
    /\ l.base_s = LabelAmount(ls, "Valor Base: ")
    /\ l.iva_s = LabelAmount(ls, "IVA: ")

\* C21: the Total is the money value that follows the token TOTAL on the
\* last line that has one, the 'TOTAL (Euros)' phrase being read only when
\* no line has one; the Base and the IVA are those of the last 'Valor Base:'
\* and of the last 'IVA:' labelled line.
C21_LastTotalWins == pc = "infer" => LastWins(locals, SplitLines(locals.ocr_text_raw))

\* a line of ls has the token TOTAL and the word total in other letters
MixedLine(ws) ==
    /\ \E k \in 1..Len(ws) : IsTotalToken(ws[k])
    /\ \E k \in 1..Len(ws) : lower(ws[k]) = Chars("total") /\ ws[k] # Chars("TOTAL")

\* C21 on the pages where no TOTAL line has the word total in other letters too
LastTotalWinsUnmixed ==
    (pc = "infer" /\ \A k \in 1..Len(SplitLines(locals.ocr_text_raw)) :
                        ~MixedLine(Split(SplitLines(locals.ocr_text_raw)[k])))
        => LastWins(locals, SplitLines(locals.ocr_text_raw))

\* the Total of a line is the money value that follows 'Total', not the one after TOTAL
MixedLineTotal ==
    /\ pc = "infer"
    /\ locals.ocr_text_raw =
          Page(<<"FATURA FT A/15", "TOTAL 123,00", "Sub Total 100,00 TOTAL 146,00">>)
    /\ locals.total_s = Chars("100,00")
====
